---- MODULE Spec2Model ----
(***************************************************************************)
(* FrogUI (src/frogos.c): the navigation and view state machine of the     *)
(* file browser.  One frame = one call of handle_input(), including the    *)
(* render_menu() call that ends it.  Strings are sequences of one-         *)
(* character strings; Code gives the byte value strcmp() compares.         *)
(***************************************************************************)
EXTENDS Integers, Sequences, FiniteSets, TLC

VARIABLES
    fs,                  \* which card is in the device, a key of Disk
    entries,             \* MenuEntry *entries, the first entry_count elements
    entry_count,
    selected_index,
    scroll_offset,
    current_path,
    last_selected_index,
    az_picker_active,
    az_selected_index,
    prev_input,          \* prev_input[0..10]
    game_queued,
    launch,              \* arguments of the init_direct_loader() call, <<>> before any
    hide_empty_folders,
    show_multicore_opt,
    empty_dirs,          \* empty_dirs[0..empty_dirs_count-1]
    empty_dirs_loaded,
    cache_file,          \* EMPTY_DIRS_CACHE_FILE: <<FALSE>> when absent, else <<TRUE, lines>>
    favorites,           \* favorites store (favorites.h)
    recents,             \* recent games store (recent_games.h)
    settings_active,     \* settings_is_active() (settings.h)
    halted,              \* the process stopped on a trap
    entries_capacity,    \* the MenuEntry slots allocated at entries
    heap,                \* the memory of the device: the slots realloc() can give
                         \* and what a write outside the array does
    last                 \* history: what the last frame saw and did

vars == <<fs, entries, entry_count, selected_index, scroll_offset, current_path,
          last_selected_index, az_picker_active, az_selected_index, prev_input,
          game_queued, launch, hide_empty_folders, show_multicore_opt, empty_dirs,
          empty_dirs_loaded, cache_file, favorites, recents, settings_active,
          halted, entries_capacity, heap, last>>

----------------------------------------------------------------------------
(* Characters and C string functions *)

Code ==
    " " :> 32 @@ "!" :> 33 @@ "#" :> 35 @@ "-" :> 45 @@ "." :> 46 @@ "/" :> 47 @@
    "0" :> 48 @@ "1" :> 49 @@ "2" :> 50 @@ "3" :> 51 @@ "4" :> 52 @@
    "5" :> 53 @@ "6" :> 54 @@ "7" :> 55 @@ "8" :> 56 @@ "9" :> 57 @@ ";" :> 59 @@
    "A" :> 65 @@ "B" :> 66 @@ "C" :> 67 @@ "D" :> 68 @@ "E" :> 69 @@ "F" :> 70 @@
    "G" :> 71 @@ "H" :> 72 @@ "I" :> 73 @@ "J" :> 74 @@ "K" :> 75 @@ "L" :> 76 @@
    "M" :> 77 @@ "N" :> 78 @@ "O" :> 79 @@ "P" :> 80 @@ "Q" :> 81 @@ "R" :> 82 @@
    "S" :> 83 @@ "T" :> 84 @@ "U" :> 85 @@ "V" :> 86 @@ "W" :> 87 @@ "X" :> 88 @@
    "Y" :> 89 @@ "Z" :> 90 @@ "_" :> 95 @@
    "a" :> 97 @@ "b" :> 98 @@ "c" :> 99 @@ "d" :> 100 @@ "e" :> 101 @@ "f" :> 102 @@
    "g" :> 103 @@ "h" :> 104 @@ "i" :> 105 @@ "j" :> 106 @@ "k" :> 107 @@ "l" :> 108 @@
    "m" :> 109 @@ "n" :> 110 @@ "o" :> 111 @@ "p" :> 112 @@ "q" :> 113 @@ "r" :> 114 @@
    "s" :> 115 @@ "t" :> 116 @@ "u" :> 117 @@ "v" :> 118 @@ "w" :> 119 @@ "x" :> 120 @@
    "y" :> 121 @@ "z" :> 122

\* The bytes of string str, without the terminating NUL
Bytes(str) == [i \in 1..Len(str) |-> Code[str[i]]]

\* The byte at 1-based position i of bytes; 0 is the terminating NUL.
ByteAt(bytes, i) == IF i <= Len(bytes) THEN bytes[i] ELSE 0

\* tolower() and toupper() on a byte
ToLower(c) == IF c >= 65 /\ c <= 90 THEN c + 32 ELSE c
ToUpper(c) == IF c >= 97 /\ c <= 122 THEN c - 32 ELSE c

\* the byte comparison of strcmp: the first difference decides
BytesLess(x, y) ==
    \E i \in 1..(Len(x) + 1) :
        /\ \A j \in 1..(i - 1) : ByteAt(x, j) = ByteAt(y, j)
        /\ ByteAt(x, i) < ByteAt(y, i)

\* strcmp(a, b) < 0
StrLess(a, b) == BytesLess(Bytes(a), Bytes(b))

\* strcmp(a, b) == 0
StrEq(a, b) == a = b

\* the byte comparison of strcasecmp: equal after tolower()
BytesCaseEq(x, y) ==
    /\ Len(x) = Len(y)
    /\ \A i \in 1..Len(x) : ToLower(x[i]) = ToLower(y[i])

\* strcasecmp(a, b) == 0
strcasecmp0(a, b) == BytesCaseEq(Bytes(a), Bytes(b))

\* strrchr(str, ch): the 1-based position of the last ch, 0 for NULL
strrchr(str, ch) ==
    IF \E i \in 1..Len(str) : str[i] = ch
    THEN CHOOSE i \in 1..Len(str) : str[i] = ch /\ \A j \in (i + 1)..Len(str) : str[j] # ch
    ELSE 0

\* strchr(str, ch): the 1-based position of the first ch, 0 for NULL
strchr(str, ch) ==
    IF \E i \in 1..Len(str) : str[i] = ch
    THEN CHOOSE i \in 1..Len(str) : str[i] = ch /\ \A j \in 1..(i - 1) : str[j] # ch
    ELSE 0

\* the string from position i on (pointer arithmetic str + i - 1)
StrFrom(str, i) == SubSeq(str, i, Len(str))

\* strncmp(str, prefix, strlen(prefix)) == 0
HasPrefix(str, prefix) ==
    Len(str) >= Len(prefix) /\ SubSeq(str, 1, Len(prefix)) = prefix

----------------------------------------------------------------------------
(* String literals of the program *)

ROMS_PATH     == <<"/","m","n","t","/","s","d","a","1","/","R","O","M","S">>
ROMS_PREFIX   == ROMS_PATH \o <<"/">>
DOTDOT        == <<".",".">>
RECENT_GAMES  == <<"R","E","C","E","N","T","_","G","A","M","E","S">>
FAVORITES     == <<"F","A","V","O","R","I","T","E","S">>
RANDOM_GAME   == <<"R","A","N","D","O","M","_","G","A","M","E">>
TOOLS         == <<"T","O","O","L","S">>
UTILS         == <<"U","T","I","L","S">>
HOTKEYS       == <<"H","O","T","K","E","Y","S">>
CREDITS       == <<"C","R","E","D","I","T","S">>
REBUILD_CACHE == <<"R","E","B","U","I","L","D","_","C","A","C","H","E">>
N_Recent      == <<"R","e","c","e","n","t"," ","g","a","m","e","s">>
N_Favorites   == <<"F","a","v","o","r","i","t","e","s">>
N_Random      == <<"R","a","n","d","o","m"," ","g","a","m","e">>
N_Tools       == <<"T","o","o","l","s">>
N_Hotkeys     == <<"H","o","t","k","e","y","s">>
N_Credits     == <<"C","r","e","d","i","t","s">>
N_Utils       == <<"U","t","i","l","s">>
N_Rebuild     == <<"R","e","b","u","i","l","d"," ","f","o","l","d","e","r"," ","c","a","c","h","e">>
N_frogui      == <<"f","r","o","g","u","i">>
N_saves       == <<"s","a","v","e","s">>
N_save        == <<"s","a","v","e">>
N_js2000      == <<"j","s","2","0","0","0">>
N_FrogUI      == <<"F","r","o","g","U","I">>

\* the special values of current_path
SpecialViews == {RECENT_GAMES, FAVORITES, TOOLS, UTILS, HOTKEYS, CREDITS}

----------------------------------------------------------------------------
(* Filesystems *)

DT_UNKNOWN == "DT_UNKNOWN"
DT_DIR     == "DT_DIR"
DT_REG     == "DT_REG"

\* one struct dirent, with what stat() would report for it
Dirent(name, type, isdir) == [d_name |-> name, d_type |-> type, st_isdir |-> isdir]

\* snprintf(full_path, "%s/%s", path, name)
JoinPath(path, name) == path \o <<"/">> \o name

F_gb        == <<"g","b">>
F_nes       == <<"n","e","s">>
F_sub       == <<"s","u","b">>
F_Banana    == <<"B","a","n","a","n","a">>
F_apple     == <<"a","p","p","l","e">>
F_Cherry    == <<"C","h","e","r","r","y">>
F_1up       == <<"1","u","p">>
F_zed       == <<"z","e","d">>
F_tool      == <<"t","o","o","l">>
F_readme    == <<"r","e","a","d","m","e">>
F_hidden    == <<".","h","i","d">>
F_snes      == <<"s","n","e","s">>
F_mario     == <<"m","a","r","i","o">>
F_ant       == <<"a","n","t">>

Dir(name)  == Dirent(name, DT_DIR, TRUE)
File(name) == Dirent(name, DT_REG, FALSE)

GB_PATH  == JoinPath(ROMS_PATH, F_gb)
SUB_PATH == JoinPath(GB_PATH, F_sub)

\* a card with console folders, a nested folder, an empty folder, hidden and
\* reserved names, a file beside the folders and a folder called "Favorites"
FS_Card ==
    ROMS_PATH :> << Dir(F_snes), Dir(F_nes), File(F_readme), Dir(F_gb), Dir(F_hidden),
                    Dir(N_saves), Dir(N_Favorites), Dir(N_js2000) >>
    @@ GB_PATH :> << Dir(F_sub), File(F_Banana), File(F_apple), File(F_Cherry), File(F_ant) >>
    @@ SUB_PATH :> << File(F_1up) >>
    @@ JoinPath(ROMS_PATH, F_snes) :> << File(F_mario) >>
    @@ JoinPath(ROMS_PATH, F_nes) :> << >>
    @@ JoinPath(ROMS_PATH, N_Favorites) :> << File(F_zed) >>
    @@ JoinPath(ROMS_PATH, N_js2000) :> << File(F_tool) >>

\* a card whose filesystem reports no d_type: one empty folder, one file and
\* one filled folder
FS_Raw ==
    ROMS_PATH :> << Dirent(F_nes, DT_UNKNOWN, TRUE), Dirent(F_readme, DT_UNKNOWN, FALSE),
                    Dirent(F_gb, DT_UNKNOWN, TRUE) >>
    @@ GB_PATH :> << Dirent(F_Banana, DT_UNKNOWN, FALSE) >>
    @@ JoinPath(ROMS_PATH, F_nes) :> << >>

INITIAL_ENTRIES_CAPACITY == 64
VISIBLE_ENTRIES == 7

\* a card with one folder of more files than the first allocation of the
\* Entry Store holds
DigitChars == <<"0", "1", "2", "3", "4", "5", "6", "7", "8", "9">>
BigName(i) == <<"f", DigitChars[(i \div 10) + 1], DigitChars[(i % 10) + 1]>>
BigCount == INITIAL_ENTRIES_CAPACITY + 1
FS_Big ==
    ROMS_PATH :> << Dir(F_gb) >>
    @@ GB_PATH :> (<<>> \o [i \in 1..BigCount |-> File(BigName(i))])

\* a card with one folder of more rows than the screen shows
LongCount == VISIBLE_ENTRIES + 1
FS_Long ==
    ROMS_PATH :> << Dir(F_gb) >>
    @@ GB_PATH :> (<<>> \o [i \in 1..LongCount |-> File(BigName(i))])

\* a card with a folder that holds a file whose name starts with a byte below '.'
F_dash == <<"-", "x">>
FS_Signs ==
    ROMS_PATH :> << Dir(F_gb) >>
    @@ GB_PATH :> << File(F_apple), File(F_dash) >>

\* a card with a folder that is listed but cannot be opened
FS_Locked ==
    ROMS_PATH :> << Dir(F_gb), Dir(F_nes) >>
    @@ JoinPath(ROMS_PATH, F_nes) :> << File(F_zed) >>

\* no card: /mnt/sda1/ROMS cannot be opened
FS_NoCard == << >>

\* the cards a specification may start with
Disk == [ card |-> FS_Card, raw |-> FS_Raw, nocard |-> FS_NoCard, big |-> FS_Big,
          locked |-> FS_Locked, long |-> FS_Long,
          signs |-> FS_Signs ]

----------------------------------------------------------------------------
(* The filesystem as opendir()/readdir()/stat() show it *)

\* opendir(path) != NULL
opendir(path) == path \in DOMAIN Disk[fs]

\* the dirents readdir() returns for an open directory, in its order
readdir(path) == Disk[fs][path]

----------------------------------------------------------------------------
(* Program constants *)

MAX_PATH_LEN == 512
NAME_LEN == 256
MAX_EMPTY_DIRS == 256
EMPTY_NAME_MAX == 63
PAGE_STEP == 7
AZ_COLUMNS == 7
AZ_LAST_ROW_START == 21
AZ_DIGIT_BUCKET == 26
AZ_SYMBOL_BUCKET == 27
MAX_ATTEMPTS == 100

----------------------------------------------------------------------------
(* The program state as one record, so that the functions of frogos.c are  *)
(* operators from state to state.                                          *)

Cur ==
    [ entries |-> entries, selected_index |-> selected_index,
      scroll_offset |-> scroll_offset, current_path |-> current_path,
      last_selected_index |-> last_selected_index,
      az_picker_active |-> az_picker_active, az_selected_index |-> az_selected_index,
      prev_input |-> prev_input, game_queued |-> game_queued, launch |-> launch,
      hide_empty_folders |-> hide_empty_folders, show_multicore_opt |-> show_multicore_opt,
      empty_dirs |-> empty_dirs, empty_dirs_loaded |-> empty_dirs_loaded,
      cache_file |-> cache_file, favorites |-> favorites, recents |-> recents,
      settings_active |-> settings_active, halted |-> halted,
      entries_capacity |-> entries_capacity, heap |-> heap,
      \* what the frame being handled has done so far (recorded in last)
      rendered |-> FALSE, populates |-> 0, div0 |-> FALSE, oob |-> FALSE,
      xrow |-> <<>>, nomem |-> FALSE, rebuilds |-> 0, tracker |-> -1 ]

\* entry_count of a state record
Count(s) == Len(s.entries)

MenuEntry(name, path, is_dir) == [name |-> name, path |-> path, is_dir |-> is_dir]

\* reset_navigation_state(), after entry_count = 0
\* a device with memory to spare
AmpleHeap == [slots |-> 64 * INITIAL_ENTRIES_CAPACITY, stray |-> "lands"]

\* while (new_capacity < required_capacity) new_capacity *= 2
RECURSIVE Doubled(_, _)
Doubled(new_capacity, required_capacity) ==
    IF new_capacity < required_capacity
    THEN Doubled(new_capacity * 2, required_capacity) ELSE new_capacity

\* realloc(entries, new_capacity * sizeof(MenuEntry)) != NULL
realloc(s, new_capacity) == new_capacity <= s.heap.slots

ensure_entries_capacity(s, required_capacity) ==
    IF s.entries_capacity >= required_capacity THEN s
    ELSE LET new_capacity ==
                 Doubled(IF s.entries_capacity = 0 THEN INITIAL_ENTRIES_CAPACITY
                         ELSE s.entries_capacity, required_capacity)
         IN IF ~realloc(s, new_capacity) THEN [s EXCEPT !.nomem = TRUE]
            ELSE [s EXCEPT !.entries_capacity = new_capacity]

\* the rows of a populator go in one by one, each after ensure_entries_capacity
\* for it; a row past the capacity is a write outside the array
StrayWrites(c) ==
    IF Count(c) <= c.entries_capacity THEN c
    ELSE IF c.heap.stray = "trap" THEN [c EXCEPT !.halted = TRUE]
    ELSE c
RowsWritten(s) ==
    CHOOSE w \in {StrayWrites(ensure_entries_capacity(p, Count(p))) : p \in {s}} : TRUE

reset_navigation_state(s) ==
    [s EXCEPT !.selected_index = 0, !.scroll_offset = 0, !.populates = @ + 1]

----------------------------------------------------------------------------
(* Empty-directory cache *)

\* strncpy(dst, name, sizeof(dst) - 1) into a 64-byte buffer
Truncate(name) ==
    IF Len(name) > EMPTY_NAME_MAX THEN SubSeq(name, 1, EMPTY_NAME_MAX) ELSE name

IsReserved(name) ==
    strcasecmp0(name, N_frogui) \/ strcasecmp0(name, N_saves) \/ strcasecmp0(name, N_save)

\* name[0] == '.'
IsHidden(name) == name # <<>> /\ name[1] = "."

\* the inner loop of rebuild_empty_dirs_cache: some child whose name does not start with '.'
has_content(children) == \E k \in 1..Len(children) : ~IsHidden(children[k].d_name)

RECURSIVE RebuildLoop(_, _, _)
RebuildLoop(listing, i, acc) ==
    IF i > Len(listing) \/ Len(acc) >= MAX_EMPTY_DIRS THEN acc
    ELSE LET ent == listing[i]
             entry_name == Truncate(ent.d_name)
             full_path == JoinPath(ROMS_PATH, entry_name)
         IN IF IsHidden(ent.d_name) \/ IsReserved(ent.d_name) \/ ent.d_type # DT_DIR
            THEN RebuildLoop(listing, i + 1, acc)
            ELSE IF opendir(full_path) /\ ~has_content(readdir(full_path))
                 THEN RebuildLoop(listing, i + 1, Append(acc, entry_name))
                 ELSE RebuildLoop(listing, i + 1, acc)

\* the end of rebuild_empty_dirs_cache: the names found are kept and written to the file
StoreCache(s, found) == [s EXCEPT !.empty_dirs = found, !.cache_file = <<TRUE, found>>]

rebuild_empty_dirs_cache(s) ==
    IF ~opendir(ROMS_PATH)
    THEN [s EXCEPT !.empty_dirs = <<>>, !.rebuilds = @ + 1]
    ELSE StoreCache([s EXCEPT !.rebuilds = @ + 1], RebuildLoop(readdir(ROMS_PATH), 1, <<>>))

\* the fgets() loop of load_empty_dirs_cache: non-empty lines, at most MAX_EMPTY_DIRS
RECURSIVE ReadLines(_, _, _)
ReadLines(lines, i, acc) ==
    IF i > Len(lines) \/ Len(acc) >= MAX_EMPTY_DIRS THEN acc
    ELSE IF lines[i] # <<>>
         THEN ReadLines(lines, i + 1, Append(acc, Truncate(lines[i])))
         ELSE ReadLines(lines, i + 1, acc)

\* a plausible slip: a load after the first rebuilds the cache
load_empty_dirs_cache_Again(s) ==
    IF s.empty_dirs_loaded THEN rebuild_empty_dirs_cache(s)
    ELSE LET s1 == [s EXCEPT !.empty_dirs_loaded = TRUE, !.empty_dirs = <<>>]
         IN IF ~s1.cache_file[1]
            THEN rebuild_empty_dirs_cache(s1)
            ELSE [s1 EXCEPT !.empty_dirs = ReadLines(s1.cache_file[2], 1, <<>>)]

load_empty_dirs_cache(s) ==
    IF s.empty_dirs_loaded THEN s
    ELSE LET s1 == [s EXCEPT !.empty_dirs_loaded = TRUE, !.empty_dirs = <<>>]
         IN IF ~s1.cache_file[1]
            THEN rebuild_empty_dirs_cache(s1)
            ELSE [s1 EXCEPT !.empty_dirs = ReadLines(s1.cache_file[2], 1, <<>>)]

is_in_empty_cache(s, folder_name) ==
    \E i \in 1..Len(s.empty_dirs) : strcasecmp0(s.empty_dirs[i], folder_name)

----------------------------------------------------------------------------
(* Directory scanner *)

is_directory_fast(ent) ==
    IF ent.d_type # DT_UNKNOWN THEN ent.d_type = DT_DIR ELSE ent.st_isdir

\* a plausible slip: the names are compared without regard to case
compare_entries_NoCase(a, b) ==
    BytesLess([i \in 1..Len(a.name) |-> ToLower(Code[a.name[i]])],
              [i \in 1..Len(b.name) |-> ToLower(Code[b.name[i]])])

\* compare_entries(a, b) < 0
compare_entries(a, b) == StrLess(a.name, b.name)

\* qsort(entries, entry_count, sizeof(MenuEntry), compare_entries)
\* the place of seq[i] in the sorted array: after every smaller entry, and
\* after the entries of the same name that follow it in seq
SortedPlace(seq, i) ==
    Cardinality({j \in 1..Len(seq) :
                    \/ compare_entries(seq[j], seq[i])
                    \/ j > i /\ ~compare_entries(seq[i], seq[j])}) + 1
SortedPlaces(seq) == <<>> \o [i \in 1..Len(seq) |-> SortedPlace(seq, i)]
Arranged(seq, place) ==
    <<>> \o [k \in 1..Len(seq) |-> seq[CHOOSE i \in 1..Len(seq) : place[i] = k]]
qsort(seq) == CHOOSE sorted \in {Arranged(seq, place) : place \in {SortedPlaces(seq)}} : TRUE

\* for (i = entry_count; i > pos; i--) entries[i] = entries[i-1]; entries[pos] = e; entry_count++
ShiftInsert(seq, pos, e) ==
    SubSeq(seq, 1, pos) \o <<e>> \o SubSeq(seq, pos + 1, Len(seq))

RootRowRecent    == MenuEntry(N_Recent, RECENT_GAMES, 1)
RootRowFavorites == MenuEntry(N_Favorites, FAVORITES, 1)
RootRowRandom    == MenuEntry(N_Random, RANDOM_GAME, 1)
RootRowTools     == MenuEntry(N_Tools, TOOLS, 1)

\* the synthetic rows of the root listing, inserted after the sort
InsertRootRows(seq) ==
    Append(ShiftInsert(ShiftInsert(ShiftInsert(seq, 0, RootRowRecent),
                                   1, RootRowFavorites),
                       2, RootRowRandom),
           RootRowTools)

\* the parent-directory entry of a non-root listing
ParentEntry(path) == MenuEntry(DOTDOT, path, 1)

\* the end of the loop body: the entry is stored
AddEntry(s, path, ent) ==
    [s EXCEPT !.entries = Append(@, MenuEntry(ent.d_name, JoinPath(path, ent.d_name),
                                              IF is_directory_fast(ent) THEN 1 ELSE 0))]

\* the hide-empty test of the loop body, s1 being the state with the cache loaded
SkipIfCachedEmpty(s1, path, ent) ==
    IF is_in_empty_cache(s1, ent.d_name) THEN s1 ELSE AddEntry(s1, path, ent)

\* a plausible slip: the root keeps what the type hint does not call a folder
ScanEntry_HintOnly(s, path, is_root, ent) ==
    IF IsHidden(ent.d_name) \/ IsReserved(ent.d_name) THEN s
    ELSE IF is_root /\ ent.d_type = DT_REG THEN s
    ELSE IF is_root /\ is_directory_fast(ent) /\ s.hide_empty_folders
    THEN SkipIfCachedEmpty(load_empty_dirs_cache(s), path, ent)
    ELSE AddEntry(s, path, ent)

\* the body of the readdir() loop of scan_directory for one dirent
ScanEntry(s, path, is_root, ent) ==
    IF IsHidden(ent.d_name) \/ IsReserved(ent.d_name) THEN s
    ELSE IF is_root /\ ~is_directory_fast(ent) THEN s
    ELSE IF is_root /\ is_directory_fast(ent) /\ s.hide_empty_folders
    THEN SkipIfCachedEmpty(load_empty_dirs_cache(s), path, ent)
    ELSE AddEntry(s, path, ent)

\* the readdir() loop of scan_directory
RECURSIVE ScanRange(_, _, _, _, _, _)
ScanRange(s, path, is_root, listing, lo, hi) ==
    IF lo > hi THEN s
    ELSE IF lo = hi THEN ScanEntry(s, path, is_root, listing[lo])
    ELSE CHOOSE n \in
            { ScanRange(m, path, is_root, listing, ((lo + hi) \div 2) + 1, hi) :
                m \in {ScanRange(s, path, is_root, listing, lo, (lo + hi) \div 2)} } : TRUE
ScanLoop(s, path, is_root, listing, i) ==
    ScanRange(s, path, is_root, listing, i, Len(listing))

\* a plausible slip: the parent entry is left to the part after opendir()
ScanStart_NoParent(s, path) == reset_navigation_state([s EXCEPT !.entries = <<>>])

\* the start of scan_directory: the store is emptied, ".." is added below the root
ScanStart(s, path) ==
    reset_navigation_state(
        [s EXCEPT !.entries = IF StrEq(path, ROMS_PATH) THEN <<>>
                              ELSE <<ParentEntry(path)>>])

\* a plausible slip: the scan ends like the special views, tracker on the selection
ScanFinish_Tracked(s1, is_root, sorted) ==
    [s1 EXCEPT !.entries = IF is_root THEN InsertRootRows(sorted) ELSE sorted,
               !.last_selected_index = s1.selected_index]

\* the end of scan_directory: the sort, the root's synthetic rows, the redraw flag
ScanFinish(s1, is_root, sorted) ==
    [s1 EXCEPT !.entries = IF is_root THEN InsertRootRows(sorted) ELSE sorted,
               !.last_selected_index = -1]

\* the scan of an opened directory
ScanOpened(s1, is_root) == ScanFinish(s1, is_root, qsort(s1.entries))

scan_directory(s, path) ==
    IF ~opendir(path) THEN RowsWritten(ScanStart(s, path))
    ELSE RowsWritten(ScanOpened(ScanLoop(ScanStart(s, path), path,
                                         StrEq(path, ROMS_PATH), readdir(path), 1),
                                StrEq(path, ROMS_PATH)))

----------------------------------------------------------------------------
(* Collaborators: recent games, favorites and settings stores *)

Game(core, name, dir, display) ==
    [core_name |-> core, game_name |-> name, full_path |-> dir, display_name |-> display]

RemoveAt(seq, i) == SubSeq(seq, 1, i - 1) \o SubSeq(seq, i + 1, Len(seq))

\* recent_games_add(core_name, filename, directory): most recent first, no duplicates
recent_games_add(list, core, filename, directory) ==
    <<Game(core, filename, directory, filename)>> \o
    SelectSeq(list, LAMBDA g : ~(g.core_name = core /\ g.game_name = filename))

\* favorites_is_favorited(directory, filename)
favorites_is_favorited(list, directory, filename) ==
    \E i \in 1..Len(list) : list[i].full_path = directory /\ list[i].game_name = filename

\* favorites_toggle(core_name, filename, directory)
favorites_toggle(list, core, filename, directory) ==
    IF favorites_is_favorited(list, directory, filename)
    THEN SelectSeq(list, LAMBDA g : ~(g.full_path = directory /\ g.game_name = filename))
    ELSE Append(list, Game(core, filename, directory, filename))

\* favorites_remove_by_index(index), index 0-based
favorites_remove_by_index(list, index) ==
    IF index >= 0 /\ index < Len(list) THEN RemoveAt(list, index + 1) ELSE list

\* settings_show_menu()
settings_show_menu(s) == [s EXCEPT !.settings_active = TRUE]

\* settings_handle_input(...): consumes the frame while the menu is open; B leaves it
settings_handle_input(s, back_edge) ==
    IF back_edge THEN [s EXCEPT !.settings_active = FALSE] ELSE s

----------------------------------------------------------------------------
(* View populators *)

\* "%s;%s" of a store row
CompositeKey(g) == g.core_name \o <<";">> \o g.game_name

\* what a buffer of size bytes keeps of a string: size - 1 characters
FitsIn(str, size) == IF Len(str) < size THEN str ELSE SubSeq(str, 1, size - 1)

\* strncpy(name, display_name, 255); snprintf(path, MAX_PATH_LEN, "%s;%s", ...)
StoreRows(list) ==
    [i \in 1..Len(list) |->
        MenuEntry(FitsIn(list[i].display_name, NAME_LEN),
                  FitsIn(CompositeKey(list[i]), MAX_PATH_LEN), 0)]

show_recent_games(s) ==
    LET s1 == reset_navigation_state([s EXCEPT !.entries = <<>>])
        s2 == [s1 EXCEPT !.current_path = RECENT_GAMES,
                         !.entries = Append(StoreRows(s.recents),
                                            MenuEntry(DOTDOT, ROMS_PATH, 1))]
    IN RowsWritten([s2 EXCEPT !.last_selected_index = s2.selected_index])

show_favorites(s) ==
    LET s1 == reset_navigation_state([s EXCEPT !.entries = <<>>])
        s2 == [s1 EXCEPT !.current_path = FAVORITES,
                         !.entries = Append(StoreRows(s.favorites),
                                            MenuEntry(DOTDOT, ROMS_PATH, 1))]
    IN RowsWritten([s2 EXCEPT !.last_selected_index = s2.selected_index])

show_tools_menu(s) ==
    LET s1 == reset_navigation_state([s EXCEPT !.entries = <<>>])
        s2 == [s1 EXCEPT !.current_path = TOOLS,
                         !.entries = << MenuEntry(N_Hotkeys, HOTKEYS, 1),
                                        MenuEntry(N_Credits, CREDITS, 1),
                                        MenuEntry(N_Utils, UTILS, 1),
                                        MenuEntry(DOTDOT, ROMS_PATH, 1) >>]
    IN RowsWritten([s2 EXCEPT !.last_selected_index = s2.selected_index])

\* the readdir() loop of show_utils_menu over ROMS_PATH/js2000
UtilsRows(js2000_path) ==
    IF ~opendir(js2000_path) THEN <<>>
    ELSE LET shown == SelectSeq(readdir(js2000_path), LAMBDA ent : ~IsHidden(ent.d_name))
         IN [i \in 1..Len(shown) |->
                MenuEntry(shown[i].d_name, JoinPath(js2000_path, shown[i].d_name),
                          IF shown[i].st_isdir THEN 1 ELSE 0)]

\* a plausible slip: the Utils listing is left without its back row
show_utils_menu_NoBack(s) ==
    LET s1 == reset_navigation_state([s EXCEPT !.entries = <<>>])
        s2 == [s1 EXCEPT !.current_path = UTILS,
                         !.entries = UtilsRows(JoinPath(ROMS_PATH, N_js2000)) \o
                                     << MenuEntry(N_Rebuild, REBUILD_CACHE, 0) >>]
    IN RowsWritten([s2 EXCEPT !.last_selected_index = s2.selected_index])

show_utils_menu(s) ==
    LET s1 == reset_navigation_state([s EXCEPT !.entries = <<>>])
        s2 == [s1 EXCEPT !.current_path = UTILS,
                         !.entries = UtilsRows(JoinPath(ROMS_PATH, N_js2000)) \o
                                     << MenuEntry(N_Rebuild, REBUILD_CACHE, 0),
                                        MenuEntry(DOTDOT, TOOLS, 1) >>]
    IN RowsWritten([s2 EXCEPT !.last_selected_index = s2.selected_index])

show_hotkeys_screen(s) ==
    reset_navigation_state([s EXCEPT !.current_path = HOTKEYS, !.entries = <<>>])

show_credits_screen(s) ==
    reset_navigation_state([s EXCEPT !.current_path = CREDITS, !.entries = <<>>])

----------------------------------------------------------------------------
(* Rendering: the part of render_menu that writes state *)

\* a plausible slip: the redraw leaves the scroll offset alone
ClampScroll_Skip(s) == s

\* a plausible slip: the redraw scrolls up to the selection but never down
ClampScroll_UpOnly(s) ==
    IF s.selected_index < s.scroll_offset
    THEN [s EXCEPT !.scroll_offset = s.selected_index]
    ELSE s

ClampScroll(s) ==
    IF s.selected_index < s.scroll_offset
    THEN [s EXCEPT !.scroll_offset = s.selected_index]
    ELSE IF s.selected_index >= s.scroll_offset + VISIBLE_ENTRIES
         THEN [s EXCEPT !.scroll_offset = s.selected_index - VISIBLE_ENTRIES + 1]
         ELSE s

render_menu(s) ==
    LET r == [s EXCEPT !.rendered = TRUE, !.tracker = s.last_selected_index]
    IN IF r.game_queued \/ r.settings_active
          \/ StrEq(r.current_path, HOTKEYS) \/ StrEq(r.current_path, CREDITS)
       THEN r
       ELSE [ClampScroll(r) EXCEPT !.last_selected_index = r.selected_index]

----------------------------------------------------------------------------
(* Launching *)

get_corename(path) ==
    LET start == IF HasPrefix(path, ROMS_PREFIX)
                 THEN StrFrom(path, Len(ROMS_PREFIX) + 1) ELSE path
        end == strchr(start, "/")
    IN IF end = 0 THEN start ELSE SubSeq(start, 1, end - 1)

clean_path(path) ==
    LET p == IF HasPrefix(path, ROMS_PREFIX)
             THEN StrFrom(path, Len(ROMS_PREFIX) + 1) ELSE path
        last_slash == strrchr(p, "/")
    IN IF last_slash # 0 THEN SubSeq(p, 1, last_slash - 1) ELSE p

\* the filename of an entry: what follows the last '/' of its path, else its name
EntryFilename(entry) ==
    LET filename_path == strrchr(entry.path, "/")
    IN IF filename_path # 0 THEN StrFrom(entry.path, filename_path + 1) ELSE entry.name

init_direct_loader(s, core_name, directory, filename) ==
    [s EXCEPT !.launch = <<core_name, directory, filename>>,
              !.recents = recent_games_add(@, core_name, filename, directory),
              !.game_queued = TRUE]

\* launch of a file row of a real directory listing
LaunchFile(s, entry) ==
    init_direct_loader(s, get_corename(entry.path), clean_path(entry.path),
                       EntryFilename(entry))

IsConsoleRow(e) ==
    /\ e.is_dir # 0
    /\ ~StrEq(e.path, RECENT_GAMES) /\ ~StrEq(e.path, FAVORITES)
    /\ ~StrEq(e.path, RANDOM_GAME) /\ ~StrEq(e.path, TOOLS)

IsFileRow(e) == e.is_dir = 0 /\ ~StrEq(e.name, DOTDOT)

\* the k-th value rand() returns (k from 0), rnd being the values it cycles through
rand(rnd, k) == rnd[(k % Len(rnd)) + 1]

\* strncpy(current_path, ROMS_PATH); scan_directory(current_path)
ScanRoot(s) == scan_directory([s EXCEPT !.current_path = ROMS_PATH], ROMS_PATH)

\* strncpy(current_path, path); scan_directory(current_path)
ScanInto(s, path) == scan_directory([s EXCEPT !.current_path = path], path)

\* the outcome of attempts of pick_random_game: the state, and whether it returned
Picked(s, done) == [st |-> s, done |-> done]

\* the second half of an attempt: a random file of the console scanned into s2
PickFile(s2, files, attempts, rnd) ==
    IF Len(files) = 0 THEN Picked(s2, FALSE)
    ELSE Picked(LaunchFile(s2, files[(rand(rnd, attempts + 1) % Len(files)) + 1]), TRUE)

\* the console an attempt draws
PickedConsole(consoles, attempts, rnd) ==
    consoles[(rand(rnd, attempts) % Len(consoles)) + 1]

\* the scan of the drawn console
PickInto(s2, attempts, rnd) == PickFile(s2, SelectSeq(s2.entries, IsFileRow), attempts, rnd)

\* the first half of an attempt: a random console of the root scanned into s1
PickConsole(s1, consoles, attempts, rnd) ==
    IF Len(consoles) = 0 THEN Picked(scan_directory(s1, ROMS_PATH), TRUE)
    ELSE PickInto(ScanInto(s1, PickedConsole(consoles, attempts, rnd).path), attempts, rnd)

\* one attempt, after the root scan that starts it
PickFrom(s1, attempts, rnd) ==
    PickConsole(s1, SelectSeq(s1.entries, IsConsoleRow), attempts, rnd)

\* the body of the while loop, attempts being the attempts made before it
PickAttempt(s, attempts, rnd) == PickFrom(ScanRoot(s), attempts, rnd)

\* the while loop from attempt a up to, not including, attempt b; the range is
\* halved so that the evaluation nests log2(b - a) deep, the attempts stay in order
RECURSIVE PickLoop(_, _, _, _)
PickLoop(r, a, b, rnd) ==
    IF r.done \/ a >= b THEN r
    ELSE IF b = a + 1 THEN PickAttempt(r.st, a, rnd)
    ELSE PickLoop(PickLoop(r, a, (a + b) \div 2, rnd), (a + b) \div 2, b, rnd)

\* a plausible slip: after the last attempt the folder it drew stays listed
PickEnd_Stays(r) == r.st

\* what follows the loop when every attempt found an empty console
PickEnd(r) == IF r.done THEN r.st ELSE ScanRoot(r.st)

pick_random_game(s, rnd) == PickEnd(PickLoop(Picked(s, FALSE), 0, MAX_ATTEMPTS, rnd))

----------------------------------------------------------------------------
(* Input: raw button levels of a frame, and the indexes of prev_input *)

UP == 0
DOWN == 1
BTN_A == 2
BTN_B == 3
BTN_L == 4
BTN_R == 5
SELECT == 6
LEFT == 7
RIGHT == 8
BTN_X == 9
BTN_Y == 10

Buttons == UP..BTN_Y

\* prev_input[b] && !level: the release edge every action fires on
Rel(s, in, b) == s.prev_input[b] = 1 /\ in[b] = 0

Edges(s, in) == {b \in Buttons : Rel(s, in, b)}

input_changed(s, in) == \E b \in Buttons : s.prev_input[b] # in[b]

\* prev_input[b] = level for the buttons in bs
StorePrev(s, in, bs) ==
    [s EXCEPT !.prev_input = [b \in Buttons |-> IF b \in bs THEN in[b] ELSE @[b]]]

RenderIfChanged(s, changed) == IF changed THEN render_menu(s) ELSE s

----------------------------------------------------------------------------
(* handle_input: SELECT and the settings menu *)

\* console_mappings[], the rows the modelled filesystems can name
ConsoleNames == { <<"m","e","n","u">>, <<"g","b">>, <<"n","e","s">>, N_js2000 }

\* get_core_name_for_console(console_name) != NULL
get_core_name_for_console(console_name) == console_name \in ConsoleNames

\* show_core_settings(core_name); found is what settings_load_core() returned
show_core_settings(s, found) == IF found THEN settings_show_menu(s) ELSE s

\* a plausible slip: the SELECT branch rescans the root listing, as a changed
\* hide-empty setting would ask for
HandleSelect_Rescans(s, in, found) ==
    render_menu(StorePrev(ScanRoot(s), in, {SELECT}))

HandleSelect(s, in, found) ==
    LET s1 == IF s.settings_active
              THEN [s EXCEPT !.show_multicore_opt = ~@] ELSE s
        slash == strrchr(s1.current_path, "/")
        s2 == IF s1.show_multicore_opt THEN settings_show_menu(s1)
              ELSE IF StrEq(s1.current_path, ROMS_PATH) THEN show_core_settings(s1, found)
              ELSE IF slash # 0 /\ slash # 1
                      /\ get_core_name_for_console(StrFrom(s1.current_path, slash + 1))
                   THEN show_core_settings(s1, found)
                   ELSE s1
    IN render_menu(StorePrev(s2, in, {SELECT}))

HandleSettings(s, in) ==
    RenderIfChanged(StorePrev(settings_handle_input(s, Rel(s, in, BTN_B)), in, Buttons),
                    input_changed(s, in))

----------------------------------------------------------------------------
(* handle_input: the A-Z picker *)

AzNavigate(s, in) ==
    LET i0 == s.az_selected_index
        i1 == IF Rel(s, in, UP) /\ i0 >= AZ_COLUMNS THEN i0 - AZ_COLUMNS ELSE i0
        i2 == IF Rel(s, in, DOWN) /\ i1 < AZ_LAST_ROW_START THEN i1 + AZ_COLUMNS ELSE i1
        i3 == IF Rel(s, in, LEFT) /\ i2 > 0 THEN i2 - 1 ELSE i2
        i4 == IF Rel(s, in, RIGHT) /\ i3 < AZ_SYMBOL_BUCKET THEN i3 + 1 ELSE i3
    IN [s EXCEPT !.az_selected_index = i4]

\* entries[i].name[0], converted to uppercase when it is in 'a'..'z'
EntryFirst(name) == ToUpper(ByteAt(Bytes(name), 1))

\* c >= 'A' && c <= 'Z', and c >= '0' && c <= '9'
IsUpperLetter(c) == c >= 65 /\ c <= 90
IsDigit(c) == c >= 48 /\ c <= 57

\* search_chars[bucket][0] for a letter bucket: 'A' + bucket
FirstChar(bucket) == 65 + bucket

\* the three tests of the picker's search loop on one entry's first byte
AzTest(bucket, entry_first) ==
    IF bucket = AZ_DIGIT_BUCKET /\ IsDigit(entry_first) THEN TRUE
    ELSE IF bucket = AZ_SYMBOL_BUCKET
            /\ ~(IsUpperLetter(entry_first) \/ IsDigit(entry_first)) THEN TRUE
    ELSE bucket < AZ_DIGIT_BUCKET /\ entry_first = FirstChar(bucket)

\* the test of the picker's search loop for one entry
AzMatches(bucket, name) == AzTest(bucket, EntryFirst(name))

\* a plausible slip: the search loop has no break and ends on the last match
AzJump_Last(s) ==
    LET hits == {i \in 1..Count(s) : AzMatches(s.az_selected_index, s.entries[i].name)}
    IN IF hits = {} THEN s
       ELSE [s EXCEPT !.selected_index =
                         (CHOOSE i \in hits : \A j \in hits : i >= j) - 1]

\* the picker's search loop: first matching entry, selection unchanged if none
AzJump(s) ==
    LET hits == {i \in 1..Count(s) : AzMatches(s.az_selected_index, s.entries[i].name)}
    IN IF hits = {} THEN s
       ELSE [s EXCEPT !.selected_index =
                         (CHOOSE i \in hits : \A j \in hits : i <= j) - 1]

\* A released in the picker: jump and close
AzConfirm(s, in) ==
    IF Rel(s, in, BTN_A) THEN [AzJump(s) EXCEPT !.az_picker_active = FALSE] ELSE s

\* B released in the picker: close
AzCancel(s, in) ==
    IF Rel(s, in, BTN_B) THEN [s EXCEPT !.az_picker_active = FALSE] ELSE s

\* the end of the picker branch: six of the previous levels stored, redraw on change
AzEnd(s, in, changed) ==
    RenderIfChanged(StorePrev(s, in, {UP, DOWN, BTN_A, BTN_B, LEFT, RIGHT}), changed)

HandlePicker(s, in) ==
    AzEnd(AzCancel(AzConfirm(AzNavigate(s, in), in), in), in, input_changed(s, in))

\* RIGHT released outside the picker
OpenPicker(s) ==
    IF s.current_path \notin SpecialViews /\ Count(s) > 0
    THEN [s EXCEPT !.az_picker_active = TRUE, !.az_selected_index = 0]
    ELSE s

----------------------------------------------------------------------------
(* handle_input: stepping *)

\* C's a % b for b > 0
CMod(a, b) == IF a >= 0 THEN a % b ELSE -((-a) % b)

\* a plausible slip: up stops at the first row instead of wrapping
StepUp_Stop(s) ==
    LET sel == IF s.selected_index > 0 THEN s.selected_index - 1 ELSE 0
    IN [s EXCEPT !.selected_index = sel,
                 !.scroll_offset = IF sel < @ THEN sel ELSE @]

StepUp(s) ==
    LET sel == IF s.selected_index > 0 THEN s.selected_index - 1 ELSE Count(s) - 1
    IN [s EXCEPT !.selected_index = sel,
                 !.scroll_offset = IF sel < @ THEN sel ELSE @]

StepDown(s) ==
    LET sel == IF s.selected_index < Count(s) - 1 THEN s.selected_index + 1 ELSE 0
    IN [s EXCEPT !.selected_index = sel,
                 !.scroll_offset = IF sel >= @ + VISIBLE_ENTRIES
                                   THEN sel - VISIBLE_ENTRIES + 1 ELSE @]

StepL(s) ==
    LET sel == IF s.selected_index >= PAGE_STEP THEN s.selected_index - PAGE_STEP
               ELSE Count(s) - (PAGE_STEP - s.selected_index)
    IN [s EXCEPT !.selected_index = sel,
                 !.scroll_offset = IF sel < @ THEN sel ELSE @]

\* what a build may do on (selected_index + 7) % 0: trap, or go on with a
\* remainder of zero or with the dividend as the remainder
DivZeroOutcomes == {"trap", "zero", "dividend"}

\* the scroll adjustment that follows a step down or a page down
ScrollDownTo(s, sel) ==
    [s EXCEPT !.selected_index = sel,
              !.scroll_offset = IF sel >= @ + VISIBLE_ENTRIES
                                THEN sel - VISIBLE_ENTRIES + 1 ELSE @]

\* a plausible slip: the page down wraps to the first row
StepR_ToTop(s, dz) ==
    IF s.selected_index < Count(s) - PAGE_STEP
    THEN ScrollDownTo(s, s.selected_index + PAGE_STEP)
    ELSE ScrollDownTo(s, 0)

StepR(s, dz) ==
    IF s.selected_index < Count(s) - PAGE_STEP
    THEN ScrollDownTo(s, s.selected_index + PAGE_STEP)
    ELSE IF Count(s) = 0
    THEN IF dz = "trap" THEN [s EXCEPT !.div0 = TRUE, !.halted = TRUE]
         ELSE ScrollDownTo([s EXCEPT !.div0 = TRUE],
                           IF dz = "zero" THEN 0 ELSE s.selected_index + PAGE_STEP)
    ELSE ScrollDownTo(s, CMod(s.selected_index + PAGE_STEP, Count(s)))

OnRight(s, in) == IF Rel(s, in, RIGHT) THEN OpenPicker(s) ELSE s
OnUp(s, in)    == IF Rel(s, in, UP) THEN StepUp(s) ELSE s
OnDown(s, in)  == IF Rel(s, in, DOWN) THEN StepDown(s) ELSE s
OnL(s, in)     == IF Rel(s, in, BTN_L) THEN StepL(s) ELSE s
OnR(s, in, dz) == IF Rel(s, in, BTN_R) THEN StepR(s, dz) ELSE s

\* RIGHT, up, down, L and R of the main handler, in the order of the code
Steps(s, in, dz) == OnR(OnL(OnDown(OnUp(OnRight(s, in), in), in), in), in, dz)

----------------------------------------------------------------------------
(* handle_input: X, A and B of the main handler *)

InRange(s) == s.selected_index >= 0 /\ s.selected_index < Count(s)

\* &entries[selected_index]; g is what the memory outside the array holds
EntryAt(s, g) == IF InRange(s) THEN s.entries[s.selected_index + 1] ELSE g

\* what may be read outside the array: arbitrary bytes
GarbageEntries == { MenuEntry(<<>>, <<>>, 0), MenuEntry(<<>>, <<>>, 1) }

\* the views where X may not mark a favorite
NoFavoriteViews == {RECENT_GAMES, TOOLS, UTILS, HOTKEYS, CREDITS, ROMS_PATH}

\* the selection against new_count = favorites_get_count(), then the scroll
ClampTo(s1, new_count) ==
    LET sel == IF new_count = 0 THEN 0
               ELSE IF s1.selected_index >= new_count THEN new_count - 1
               ELSE s1.selected_index
    IN [s1 EXCEPT !.selected_index = sel,
                  !.scroll_offset = IF sel < @ THEN sel ELSE @]

\* the selection after a removal, s1 being the refreshed Favorites view
ClampAfterRemove(s1) == ClampTo(s1, Len(s1.favorites))

\* the favorite of the selected row is removed and the view refreshed
RemoveFavorite(s) ==
    show_favorites([s EXCEPT !.favorites =
                        favorites_remove_by_index(@, s.selected_index)])

\* the X handler marking every file row, marked or not
ToggleEntry_OnlyAdds(s, entry) ==
    IF entry.is_dir = 0 /\ ~StrEq(s.current_path, FAVORITES)
                        /\ s.current_path \notin NoFavoriteViews
    THEN [s EXCEPT !.favorites =
             Append(@, Game(get_corename(entry.path), EntryFilename(entry),
                            clean_path(entry.path), EntryFilename(entry)))]
    ELSE s

\* the X handler on the row it read
ToggleEntry(s, entry) ==
    IF StrEq(s.current_path, FAVORITES)
    THEN IF entry.is_dir = 0 /\ ~StrEq(entry.name, DOTDOT)
         THEN ClampAfterRemove(RemoveFavorite(s))
         ELSE s
    ELSE IF entry.is_dir = 0 /\ s.current_path \notin NoFavoriteViews
         THEN [s EXCEPT !.favorites =
                  favorites_toggle(@, get_corename(entry.path),
                                   EntryFilename(entry), clean_path(entry.path))]
         ELSE s

\* the X handler
HandleX(s, g) ==
    ToggleEntry([s EXCEPT !.oob = @ \/ ~InRange(s), !.xrow = EntryAt(s, g)], EntryAt(s, g))

\* selection onto the first entry with this name, scroll adjusted both ways
RestoreByName(s, name) ==
    LET hits == {i \in 1..Count(s) : StrEq(s.entries[i].name, name)}
    IN IF hits = {} THEN s
       ELSE ClampScroll([s EXCEPT !.selected_index =
                                    (CHOOSE i \in hits : \A j \in hits : i <= j) - 1])

\* selection onto the first entry with this path, scroll adjusted downwards
RestoreByPath(s, path) ==
    LET hits == {i \in 1..Count(s) : StrEq(s.entries[i].path, path)}
        sel == (CHOOSE i \in hits : \A j \in hits : i <= j) - 1
    IN IF hits = {} THEN s
       ELSE [s EXCEPT !.selected_index = sel,
                      !.scroll_offset = IF sel >= @ + VISIBLE_ENTRIES
                                        THEN sel - VISIBLE_ENTRIES + 1 ELSE @]

\* go to the parent directory and put the selection on the directory left
Ascend(s) ==
    LET last_slash == strrchr(s.current_path, "/")
    IN IF last_slash # 0 /\ last_slash # 1
       THEN RestoreByName(ScanInto(s, SubSeq(s.current_path, 1, last_slash - 1)),
                          StrFrom(s.current_path, last_slash + 1))
       ELSE s

\* the full_path of the first store row with this core and game
StoreDirectory(list, core_name, filename) ==
    LET hits == {i \in 1..Len(list) : list[i].core_name = core_name
                                      /\ list[i].game_name = filename}
    IN IF hits = {} THEN <<>>
       ELSE list[CHOOSE i \in hits : \A j \in hits : i <= j].full_path

\* the composite key launched whether it has a ';' or not
LaunchComposite_Unchecked(s, entry, list) ==
    LET separator == strchr(entry.path, ";")
        core_name == SubSeq(entry.path, 1, separator - 1)
        filename == StrFrom(entry.path, separator + 1)
    IN [st |-> init_direct_loader(s, core_name,
                                  StoreDirectory(list, core_name, filename), filename),
        ret |-> FALSE]

\* the composite key cut at its last ';'
LaunchComposite_LastSeparator(s, entry, list) ==
    LET separator == strrchr(entry.path, ";")
        core_name == SubSeq(entry.path, 1, separator - 1)
        filename == StrFrom(entry.path, separator + 1)
    IN IF separator = 0 THEN [st |-> s, ret |-> TRUE]
       ELSE [st |-> init_direct_loader(s, core_name,
                                       StoreDirectory(list, core_name, filename), filename),
             ret |-> FALSE]

\* a file row of Recent games or Favorites: "core;game"
LaunchComposite(s, entry, list) ==
    LET separator == strchr(entry.path, ";")
        core_name == SubSeq(entry.path, 1, separator - 1)
        filename == StrFrom(entry.path, separator + 1)
    IN IF separator = 0 THEN [st |-> s, ret |-> TRUE]
       ELSE [st |-> init_direct_loader(s, core_name,
                                       StoreDirectory(list, core_name, filename), filename),
             ret |-> FALSE]

\* the A handler on the row it read; ret says that handle_input returned from inside it
Confirm(s, entry, rnd) ==
    LET go(n) == [st |-> n, ret |-> FALSE]
    IN IF StrEq(entry.name, DOTDOT) THEN go(Ascend(s))
       ELSE IF entry.is_dir # 0
       THEN IF StrEq(entry.path, RECENT_GAMES) THEN go(show_recent_games(s))
            ELSE IF StrEq(entry.path, FAVORITES) THEN go(show_favorites(s))
            ELSE IF StrEq(entry.path, RANDOM_GAME)
                 THEN [st |-> render_menu(pick_random_game(s, rnd)), ret |-> TRUE]
            ELSE IF StrEq(entry.path, TOOLS) THEN go(show_tools_menu(s))
            ELSE IF StrEq(entry.path, HOTKEYS) THEN go(show_hotkeys_screen(s))
            ELSE IF StrEq(entry.path, CREDITS) THEN go(show_credits_screen(s))
            ELSE IF StrEq(entry.path, UTILS) THEN go(show_utils_menu(s))
            ELSE go(ScanInto(s, entry.path))
       ELSE IF StrEq(s.current_path, UTILS)
       THEN IF StrEq(entry.path, REBUILD_CACHE)
            THEN [st |-> ScanRoot(rebuild_empty_dirs_cache(s)), ret |-> TRUE]
            ELSE [st |-> render_menu(init_direct_loader(s, N_js2000, N_js2000, entry.name)),
                  ret |-> TRUE]
       ELSE IF StrEq(s.current_path, RECENT_GAMES) THEN LaunchComposite(s, entry, s.recents)
       ELSE IF StrEq(s.current_path, FAVORITES) THEN LaunchComposite(s, entry, s.favorites)
       ELSE go(LaunchFile(s, entry))

\* the A handler
HandleA(s, g, rnd) == Confirm([s EXCEPT !.oob = @ \/ ~InRange(s)], EntryAt(s, g), rnd)

\* the B handler
\* the three views entered from the root: back to the root, onto the row of that view
RootViews == {RECENT_GAMES, FAVORITES, TOOLS}

\* a plausible slip: back from a view rescans the root without restoring the selection
HandleB_NoRestore(s) ==
    IF s.current_path \in RootViews THEN ScanRoot(s)
    ELSE IF s.current_path \in {HOTKEYS, CREDITS, UTILS} THEN show_tools_menu(s)
    ELSE IF ~StrEq(s.current_path, ROMS_PATH) THEN Ascend(s)
    ELSE s

\* a plausible slip: B in a folder opens the parent with the selection on its
\* first row
HandleB_ParentTop(s) ==
    IF s.current_path \in RootViews THEN RestoreByPath(ScanRoot(s), s.current_path)
    ELSE IF s.current_path \in {HOTKEYS, CREDITS, UTILS} THEN show_tools_menu(s)
    ELSE IF ~StrEq(s.current_path, ROMS_PATH)
    THEN ScanInto(s, SubSeq(s.current_path, 1, strrchr(s.current_path, "/") - 1))
    ELSE s

HandleB(s) ==
    IF s.current_path \in RootViews THEN RestoreByPath(ScanRoot(s), s.current_path)
    ELSE IF s.current_path \in {HOTKEYS, CREDITS, UTILS} THEN show_tools_menu(s)
    ELSE IF ~StrEq(s.current_path, ROMS_PATH) THEN Ascend(s)
    ELSE s

\* the main handler from X on; m is the state after the stepping handlers
OnX(s, in, g) == IF Rel(s, in, BTN_X) /\ Count(s) > 0 THEN HandleX(s, g) ELSE s

OnA(s, in, g, rnd) ==
    IF s.halted THEN [st |-> s, ret |-> TRUE]
    ELSE IF Rel(s, in, BTN_A) /\ Count(s) > 0 THEN HandleA(s, g, rnd)
    ELSE [st |-> s, ret |-> FALSE]

OnB(s, in) == IF Rel(s, in, BTN_B) THEN HandleB(s) ELSE s

\* the end of handle_input: redraw on change, ten of the previous levels stored
MainEnd(s, in, changed) ==
    IF s.halted THEN s ELSE StorePrev(RenderIfChanged(s, changed), in, UP..BTN_X)

\* what follows the A handler, unless handle_input returned from inside it
AfterA(a, in, changed) ==
    IF a.ret \/ a.st.halted THEN a.st ELSE MainEnd(OnB(a.st, in), in, changed)

\* the main handler from X on; m is the state after the stepping handlers
MainRest(m, in, g, rnd) ==
    IF m.halted THEN m
    ELSE AfterA(OnA(OnX(m, in, g), in, g, rnd), in, input_changed(m, in))

----------------------------------------------------------------------------
(* Frames *)

\* raw levels with the buttons of bs, at most held of them down at once
Levels(bs, held) ==
    { [b \in Buttons |-> IF b \in down THEN 1 ELSE 0] :
        down \in {d \in SUBSET bs : Cardinality(d) <= held} }

MaxHeld == 2
MaxBelow == 0
\* a run is followed while the selection is at most MaxAbove rows past the store
MaxAbove == 7
RandLen == 2
RandMax == 3
RandSeqs == [1..RandLen -> 0..RandMax]

\* the selected row, <<>> when the selection is outside the array
RowOf(s) == IF InRange(s) THEN s.entries[s.selected_index + 1] ELSE <<>>

\* what the frame saw (the state before it, its release edges, the raw levels
\* and the buttons whose raw level fell since the frame before) and did
LastRec(branch, in, n) ==
    [ branch |-> branch,
      \* a frame with a game queued returns before the levels are read
      edges |-> IF branch = "queued" THEN {} ELSE Edges(Cur, in),
      changed |-> branch # "queued" /\ input_changed(Cur, in),
      raw |-> {b \in Buttons : in[b] = 1},
      released |-> {b \in last.raw : in[b] = 0},
      \* some raw level differs from the frame before
      moved |-> last.raw # {b \in Buttons : in[b] = 1},
      sel |-> selected_index, scroll |-> scroll_offset, count |-> entry_count,
      path |-> current_path, row |-> RowOf(Cur), store |-> entries,
      az_active |-> az_picker_active, az_index |-> az_selected_index,
      queued |-> game_queued,
      favorites |-> favorites, recents |-> recents,
      empty_dirs |-> empty_dirs, loaded |-> empty_dirs_loaded, cache_file |-> cache_file,
      rendered |-> n.rendered, populates |-> n.populates, div0 |-> n.div0, oob |-> n.oob,
      \* the row the X handler read, <<>> when it did not run
      xrow |-> n.xrow,
      \* realloc() returned NULL in the frame; the capacity before the frame
      nomem |-> n.nomem, capacity |-> entries_capacity,
      \* how often the frame rebuilt the cache
      rebuilds |-> n.rebuilds,
      \* last_selected_index when the frame's redraw started
      tracker |-> n.tracker ]

Apply(n, branch, in) ==
    /\ fs' = fs
    /\ entries' = n.entries
    /\ entry_count' = Len(n.entries)
    /\ selected_index' = n.selected_index
    /\ scroll_offset' = n.scroll_offset
    /\ current_path' = n.current_path
    /\ last_selected_index' = n.last_selected_index
    /\ az_picker_active' = n.az_picker_active
    /\ az_selected_index' = n.az_selected_index
    /\ prev_input' = n.prev_input
    /\ game_queued' = n.game_queued
    /\ launch' = n.launch
    /\ hide_empty_folders' = n.hide_empty_folders
    /\ show_multicore_opt' = n.show_multicore_opt
    /\ empty_dirs' = n.empty_dirs
    /\ empty_dirs_loaded' = n.empty_dirs_loaded
    /\ cache_file' = n.cache_file
    /\ favorites' = n.favorites
    /\ recents' = n.recents
    /\ settings_active' = n.settings_active
    /\ halted' = n.halted
    /\ entries_capacity' = n.entries_capacity
    /\ heap' = n.heap
    /\ last' = LastRec(branch, in, n)

\* frames are followed until the program halts or the selection is more than
\* MaxBelow rows above the first row or MaxAbove rows past the store
Running ==
    /\ ~halted
    /\ selected_index >= -MaxBelow
    /\ selected_index <= entry_count + MaxAbove

\* handle_input with a game queued: input is polled and nothing else happens
\* a plausible slip: the stepping handlers run although a game is queued
FrameQueued_Steps(ins) ==
    /\ Running /\ game_queued
    /\ \E in \in ins : \E n \in {Steps(Cur, in, "zero")} : Apply(n, "queued", in)

FrameQueued(ins) ==
    /\ Running /\ game_queued
    /\ \E in \in ins : \E n \in {Cur} : Apply(n, "queued", in)

\* handle_input, SELECT released
FrameSelect(ins) ==
    /\ Running /\ ~game_queued
    /\ \E in \in ins :
        /\ Rel(Cur, in, SELECT)
        /\ \E found \in BOOLEAN :
            \E n \in {HandleSelect(Cur, in, found)} : Apply(n, "select", in)

\* handle_input, the settings menu consumes the input
FrameSettings(ins) ==
    /\ Running /\ ~game_queued /\ settings_active
    /\ \E in \in ins :
        /\ ~Rel(Cur, in, SELECT)
        /\ \E n \in {HandleSettings(Cur, in)} : Apply(n, "settings", in)

\* handle_input, the A-Z picker consumes the input
FramePicker(ins) ==
    /\ Running /\ ~game_queued /\ ~settings_active /\ az_picker_active
    /\ \E in \in ins :
        /\ ~Rel(Cur, in, SELECT)
        /\ \E n \in {HandlePicker(Cur, in)} : Apply(n, "picker", in)

DivChoices(s, in) ==
    IF Rel(s, in, BTN_R) /\ Count(s) = 0 /\ ~(s.selected_index < Count(s) - PAGE_STEP)
    THEN DivZeroOutcomes ELSE {"zero"}

GarbageChoices(m, in) ==
    IF Count(m) > 0 /\ ~InRange(m) /\ (Rel(m, in, BTN_X) \/ Rel(m, in, BTN_A))
    THEN GarbageEntries ELSE {MenuEntry(<<>>, <<>>, 0)}

\* rand() is only called by a confirm on the Random game row
RandChoices(m, in) ==
    IF Rel(m, in, BTN_A) /\ InRange(m) /\ StrEq(RowOf(m).path, RANDOM_GAME)
    THEN RandSeqs ELSE {<<0>>}

\* handle_input, the main handler
FrameMain(ins) ==
    /\ Running /\ ~game_queued /\ ~settings_active /\ ~az_picker_active
    /\ \E in \in ins :
        /\ ~Rel(Cur, in, SELECT)
        /\ \E dz \in DivChoices(Cur, in) :
            \E m \in {Steps(Cur, in, dz)} :
              \E g \in GarbageChoices(m, in) : \E rnd \in RandChoices(m, in) :
                \E n \in {MainRest(m, in, g, rnd)} :
                    Apply(n, "main", in)

----------------------------------------------------------------------------
(* The state after retro_init *)

Boot(hide, cfile, favs, recs) ==
    [ entries |-> <<>>, selected_index |-> 0, scroll_offset |-> 0, current_path |-> <<>>,
      last_selected_index |-> -1, az_picker_active |-> FALSE, az_selected_index |-> 0,
      prev_input |-> [b \in Buttons |-> 0], game_queued |-> FALSE, launch |-> <<>>,
      hide_empty_folders |-> hide, show_multicore_opt |-> FALSE,
      empty_dirs |-> <<>>, empty_dirs_loaded |-> FALSE, cache_file |-> cfile,
      favorites |-> favs, recents |-> recs, settings_active |-> FALSE, halted |-> FALSE,
      entries_capacity |-> 0, heap |-> AmpleHeap,
      rendered |-> FALSE, populates |-> 0, div0 |-> FALSE, oob |-> FALSE,
      xrow |-> <<>>, nomem |-> FALSE, rebuilds |-> 0, tracker |-> -1 ]

auto_launch_recent_game(s) ==
    IF Len(s.recents) = 0 THEN s
    ELSE init_direct_loader(s, s.recents[1].core_name, s.recents[1].full_path,
                            s.recents[1].game_name)

retro_init(s, resume_on_boot) ==
    LET s1 == IF resume_on_boot THEN auto_launch_recent_game(s) ELSE s
        s2 == IF ~s1.game_queued
              THEN scan_directory([s1 EXCEPT !.current_path = ROMS_PATH], ROMS_PATH)
              ELSE s1
    IN render_menu(s2)

StartsAs(n) ==
    /\ entries = n.entries
    /\ entry_count = Len(n.entries)
    /\ selected_index = n.selected_index
    /\ scroll_offset = n.scroll_offset
    /\ current_path = n.current_path
    /\ last_selected_index = n.last_selected_index
    /\ az_picker_active = n.az_picker_active
    /\ az_selected_index = n.az_selected_index
    /\ prev_input = n.prev_input
    /\ game_queued = n.game_queued
    /\ launch = n.launch
    /\ hide_empty_folders = n.hide_empty_folders
    /\ show_multicore_opt = n.show_multicore_opt
    /\ empty_dirs = n.empty_dirs
    /\ empty_dirs_loaded = n.empty_dirs_loaded
    /\ cache_file = n.cache_file
    /\ favorites = n.favorites
    /\ recents = n.recents
    /\ settings_active = n.settings_active
    /\ halted = n.halted
    /\ entries_capacity = n.entries_capacity
    /\ heap = n.heap
    /\ last = [ branch |-> "init", edges |-> {}, changed |-> FALSE,
                raw |-> {}, released |-> {}, moved |-> FALSE, sel |-> 0,
                scroll |-> 0, count |-> 0, path |-> <<>>, row |-> <<>>, store |-> <<>>,
                az_active |-> FALSE, az_index |-> 0, queued |-> FALSE,
                favorites |-> n.favorites,
                recents |-> n.recents, empty_dirs |-> <<>>, loaded |-> FALSE,
                cache_file |-> n.cache_file,
                rendered |-> n.rendered, populates |-> n.populates,
                div0 |-> FALSE, oob |-> FALSE, xrow |-> <<>>, nomem |-> n.nomem,
                capacity |-> 0, rebuilds |-> n.rebuilds, tracker |-> n.tracker ]

ABSENT == <<FALSE>>

InitWith(filesystems, hides, resumes, cfiles, favsets, recsets) ==
    /\ fs \in filesystems
    /\ \E hide \in hides, resume \in resumes, cfile \in cfiles,
          favs \in favsets, recs \in recsets :
        \E n \in {retro_init(Boot(hide, cfile, favs, recs), resume)} : StartsAs(n)

----------------------------------------------------------------------------
(* SpecStep: the stepping handlers on the root listing of every card, with   *)
(* and without hidden empty folders                                          *)

StepInputs == Levels({UP, DOWN, BTN_L, BTN_R}, MaxHeld)

InitStep == InitWith({"card", "raw", "nocard"}, BOOLEAN, {FALSE}, {ABSENT}, {<<>>}, {<<>>})

NextStep == FrameMain(StepInputs)

SpecStep == InitStep /\ [][NextStep]_vars

----------------------------------------------------------------------------
(* SpecTree: moving through the views with down, confirm and back *)

TreeInputs == Levels({DOWN, BTN_A, BTN_B}, MaxHeld)

InitTree == InitWith({"card", "raw", "nocard"}, {TRUE}, {FALSE}, {ABSENT}, {<<>>}, {<<>>})

NextTree == FrameQueued(TreeInputs) \/ FrameMain(TreeInputs)

SpecTree == InitTree /\ [][NextTree]_vars

----------------------------------------------------------------------------
(* SpecPicker: the A-Z picker over the listings of the card *)

PickerInputs == Levels({RIGHT, BTN_A, BTN_B}, MaxHeld)

InitPicker == InitWith({"card"}, {TRUE}, {FALSE}, {ABSENT}, {<<>>}, {<<>>})

NextPicker == FramePicker(PickerInputs) \/ FrameMain(PickerInputs)

SpecPicker == InitPicker /\ [][NextPicker]_vars

----------------------------------------------------------------------------
(* SpecGrid: the cursor of the A-Z picker moved with the four directions *)

GridInputs == Levels({UP, DOWN, LEFT, RIGHT}, MaxHeld)

InitGrid == InitWith({"card"}, {TRUE}, {FALSE}, {ABSENT}, {<<>>}, {<<>>})

NextGrid == FramePicker(GridInputs) \/ FrameMain(GridInputs)

SpecGrid == InitGrid /\ [][NextGrid]_vars

----------------------------------------------------------------------------
(* SpecSelect: SELECT and the settings menu, beside confirm and the picker *)

SelectInputs == Levels({SELECT, BTN_A, RIGHT}, MaxHeld)

InitSelect == InitWith({"raw"}, {TRUE}, {FALSE}, {ABSENT}, {<<>>}, {<<>>})

NextSelect ==
    \/ FrameQueued(SelectInputs)
    \/ FrameSelect(SelectInputs)
    \/ FrameSettings(SelectInputs)
    \/ FramePicker(SelectInputs)
    \/ FrameMain(SelectInputs)

SpecSelect == InitSelect /\ [][NextSelect]_vars

----------------------------------------------------------------------------
(* SpecOverlay: the picker opened and closed while a page button is held *)

OverlayInputs == Levels({RIGHT, BTN_L, BTN_B}, MaxHeld)

InitOverlay == InitWith({"card"}, {TRUE}, {FALSE}, {ABSENT}, {<<>>}, {<<>>})

NextOverlay == FramePicker(OverlayInputs) \/ FrameMain(OverlayInputs)

SpecOverlay == InitOverlay /\ [][NextOverlay]_vars

----------------------------------------------------------------------------
(* SpecFav: favorites and recent games already on the card, marked, removed  *)
(* and launched with X and A                                                 *)

\* a file name with ';' in it
F_semi == <<"a", ";", "b">>

G_mario  == Game(F_snes, F_mario, F_snes, F_mario)
G_zed    == Game(F_nes, F_zed, F_nes, F_zed)
G_semi   == Game(F_gb, F_semi, F_gb, F_semi)
G_Banana == Game(F_gb, F_Banana, F_gb, F_Banana)

FavInputs == Levels({DOWN, BTN_L, BTN_X, BTN_A}, MaxHeld)

InitFav == InitWith({"raw"}, {TRUE}, {FALSE}, {ABSENT},
                    {<<>>, <<G_mario, G_zed, G_semi>>}, {<<G_semi, G_mario>>})

NextFav == FrameQueued(FavInputs) \/ FrameMain(FavInputs)

SpecFav == InitFav /\ [][NextFav]_vars

----------------------------------------------------------------------------
(* SpecKey: a recents and a favorites store holding a record whose core name *)
(* fills the whole path of its row                                           *)

\* a core name of MAX_PATH_LEN - 1 characters
LongCore == [i \in 1..(MAX_PATH_LEN - 1) |-> "a"]

G_long == Game(LongCore, F_zed, F_nes, F_zed)

KeyInputs == Levels({DOWN, BTN_A, BTN_B}, MaxHeld)

InitKey == InitWith({"raw"}, {TRUE}, {FALSE}, {ABSENT},
                    {<<G_long, G_mario>>}, {<<G_mario, G_long>>})

NextKey == FrameQueued(KeyInputs) \/ FrameMain(KeyInputs)

SpecKey == InitKey /\ [][NextKey]_vars

----------------------------------------------------------------------------
(* SpecGrow: a device whose memory holds the first allocation of the Entry   *)
(* Store and no more, with a folder that needs the second                    *)

\* what a write outside the array may do
StrayOutcomes == {"lands", "trap"}

TightHeaps == {[slots |-> INITIAL_ENTRIES_CAPACITY, stray |-> o] : o \in StrayOutcomes}

GrowInputs == Levels({DOWN, BTN_A}, MaxHeld)

InitGrow ==
    /\ fs = "big"
    /\ \E h \in TightHeaps :
        \E n \in {retro_init([Boot(TRUE, ABSENT, <<>>, <<>>) EXCEPT !.heap = h], FALSE)} :
            StartsAs(n)

NextGrow == FrameQueued(GrowInputs) \/ FrameMain(GrowInputs)

SpecGrow == InitGrow /\ [][NextGrow]_vars

----------------------------------------------------------------------------
(* SpecLocked: directories that cannot be opened, the root or a folder       *)

LockedInputs == Levels({DOWN, BTN_A, BTN_B}, MaxHeld)

InitLocked == InitWith({"locked", "nocard"}, BOOLEAN, {FALSE}, {ABSENT}, {<<>>}, {<<>>})

NextLocked == FrameQueued(LockedInputs) \/ FrameMain(LockedInputs)

SpecLocked == InitLocked /\ [][NextLocked]_vars

----------------------------------------------------------------------------
(* SpecCache: the empty-folder cache file absent, empty, cut short or whole  *)

\* the cache file of a card: its lines
CacheFile(lines) == <<TRUE, lines>>

\* the folders of ROMS_PATH a rebuild finds empty
EmptyFolders == RebuildLoop(readdir(ROMS_PATH), 1, <<>>)

\* a cache file that lost its end: the last name is cut
CutShort == CacheFile(<< SubSeq(F_nes, 1, 2) >>)

\* the cache files that are absent or lost all or part of their content
BrokenCacheFiles == {ABSENT, CacheFile(<<>>), CutShort}

CacheInputs == Levels({DOWN, BTN_A, BTN_B}, MaxHeld)

InitCache == InitWith({"card"}, {TRUE}, {FALSE},
                      BrokenCacheFiles \cup {CacheFile(<<F_nes>>)}, {<<>>}, {<<>>})

NextCache == FrameQueued(CacheInputs) \/ FrameMain(CacheInputs)

SpecCache == InitCache /\ [][NextCache]_vars

----------------------------------------------------------------------------
(* SpecWrap: a folder longer than the screen, stepping upwards past its      *)
(* first row and confirming                                                  *)

WrapInputs == Levels({UP, BTN_A, BTN_B}, MaxHeld)

InitWrap == InitWith({"long"}, {TRUE}, {FALSE}, {ABSENT}, {<<>>}, {<<>>})

NextWrap == FrameQueued(WrapInputs) \/ FrameMain(WrapInputs)

SpecWrap == InitWrap /\ [][NextWrap]_vars

----------------------------------------------------------------------------
(* SpecSigns: a folder with a file name that sorts before ".."               *)

SignsInputs == Levels({DOWN, BTN_A, BTN_B}, MaxHeld)

InitSigns == InitWith({"signs"}, {TRUE}, {FALSE}, {ABSENT}, {<<>>}, {<<>>})

NextSigns == FrameQueued(SignsInputs) \/ FrameMain(SignsInputs)

SpecSigns == InitSigns /\ [][NextSigns]_vars

----------------------------------------------------------------------------
(* Claims about stepping, checked under SpecStep *)

Stepping == {UP, DOWN, BTN_L, BTN_R}

\* the frame just handled went through the stepping handlers and nothing else
StepFrame == last.branch = "main" /\ last.edges # {} /\ last.edges \subseteq Stepping

\* the frame just handled released exactly button b in the main handler
OnlyEdge(b) == last.branch = "main" /\ last.edges = {b}

\* the selection before the frame was on a row of the store
LastInRange == last.sel >= 0 /\ last.sel < last.count

\* C1: in every reachable state with entry_count > 0 the selection is a row
\* of the store: 0 <= selected_index < entry_count.
C1_SelectionInRange ==
    entry_count > 0 => (0 <= selected_index /\ selected_index < entry_count)

C3_EmptyStoreNoStep ==
    (last.branch = "main" /\ last.count = 0 /\ last.edges \cap Stepping # {}) =>
        (selected_index = last.sel /\ ~last.div0)

\* C4 as claimed: with more than 7 rows, R from row entry_count - 3 lands on row 3.
C4_PageDownLandsOn3 ==
    (OnlyEdge(BTN_R) /\ last.count > PAGE_STEP /\ last.sel = last.count - 3) =>
        selected_index = 3

\* C4 as amended: with more than 7 rows, R from row entry_count - 3 lands on
\* row 4, the remainder of entry_count - 3 + 7 by entry_count.
C4_PageDownLandsOn4 ==
    (OnlyEdge(BTN_R) /\ last.count > PAGE_STEP /\ last.sel = last.count - 3) =>
        selected_index = 4

\* R was released on row entry_count - 3 of a listing of more than 7 rows
C4_PageDownWitness ==
    /\ OnlyEdge(BTN_R) /\ last.count > PAGE_STEP /\ last.sel = last.count - 3
    /\ selected_index = (last.sel + PAGE_STEP) % last.count

\* C5: on a non-empty store, up on row 0 selects the last row, down on the
\* last row selects row 0, and on any other row up and down move by one.
C5_SingleStepWraps ==
    /\ (OnlyEdge(UP) /\ last.count > 0 /\ LastInRange) =>
            selected_index = IF last.sel = 0 THEN last.count - 1 ELSE last.sel - 1
    /\ (OnlyEdge(DOWN) /\ last.count > 0 /\ LastInRange) =>
            selected_index = IF last.sel = last.count - 1 THEN 0 ELSE last.sel + 1

\* up was released on row 0 of a listing of several rows and selected the last
C5_UpWrapWitness ==
    /\ OnlyEdge(UP) /\ last.count > 1 /\ last.sel = 0
    /\ selected_index = last.count - 1

----------------------------------------------------------------------------
(* Claims about scanning and ascending, checked under SpecTree *)

\* a directory below the root
RealSub(path) == path # <<>> /\ path \notin SpecialViews /\ ~StrEq(path, ROMS_PATH)

\* the path one segment up
ParentOf(path) == SubSeq(path, 1, strrchr(path, "/") - 1)

\* the frame just handled left a directory below the root with B, or with A on
\* its parent-marker row
AscendFrame ==
    /\ last.branch = "main" /\ RealSub(last.path)
    /\ \/ last.edges = {BTN_B}
       \/ last.edges = {BTN_A} /\ last.row # <<>> /\ StrEq(last.row.name, DOTDOT)

\* the store has a row for this path
Listed(path) == \E i \in 1..entry_count : StrEq(entries[i].path, path)

\* C6: leaving a real subfolder X with B, or with A on its parent-marker row,
\* shows the listing of X's parent with the selection on the row of folder X,
\* provided that listing still has a row for X.
C6_AscendRestores ==
    (AscendFrame /\ Listed(last.path)) =>
        /\ StrEq(current_path, ParentOf(last.path))
        /\ InRange(Cur)
        /\ StrEq(RowOf(Cur).path, last.path)

\* the rows of a root listing: Recent, Favorites, Random first, Tools last
RootShape(rows) ==
    /\ Len(rows) >= 4
    /\ rows[1] = RootRowRecent /\ rows[2] = RootRowFavorites /\ rows[3] = RootRowRandom
    /\ rows[Len(rows)] = RootRowTools

\* C7: scanning the root twice in a row gives the same rows in the same order,
\* and every root scan gives a store that begins with Recent, Favorites, Random
\* and ends with Tools.
C7_RootScan ==
    StrEq(current_path, ROMS_PATH) =>
        /\ scan_directory(Cur, ROMS_PATH).entries = entries
        /\ scan_directory(scan_directory(Cur, ROMS_PATH), ROMS_PATH).entries = entries
        /\ RootShape(entries)

\* the rows of a root listing that stand for folders of the card
FolderRows == {i \in 1..entry_count : entries[i].path \notin SpecialViews \cup {RANDOM_GAME}}

\* the top-level folders that are not hidden, not reserved, and have a child
\* whose name does not start with '.'
FilledFolders ==
    IF ~opendir(ROMS_PATH) THEN {}
    ELSE LET top == readdir(ROMS_PATH)
         IN { top[i].d_name : i \in
                { k \in 1..Len(top) :
                    /\ top[k].st_isdir /\ ~IsHidden(top[k].d_name) /\ ~IsReserved(top[k].d_name)
                    /\ opendir(JoinPath(ROMS_PATH, top[k].d_name))
                    /\ \E c \in 1..Len(readdir(JoinPath(ROMS_PATH, top[k].d_name))) :
                          ~IsHidden(readdir(JoinPath(ROMS_PATH, top[k].d_name))[c].d_name) } }

\* C8: with hide_empty_folders on and the cache as a rebuild leaves it, the
\* root listing has a row for every top-level folder that is not hidden, not
\* reserved and has a non-hidden child, and for no other folder.
C8_HidesEmptyFolders ==
    ( /\ hide_empty_folders /\ StrEq(current_path, ROMS_PATH)
      /\ empty_dirs_loaded /\ empty_dirs = rebuild_empty_dirs_cache(Cur).empty_dirs ) =>
        { entries[i].name : i \in FolderRows } = FilledFolders

----------------------------------------------------------------------------
(* Claims about the A-Z picker, checked under SpecPicker *)

\* the bucket a name belongs to: its letter, the digit bucket, or the symbol bucket
BucketOf(name) ==
    LET c == ToUpper(ByteAt(Bytes(name), 1))
    IN IF c >= 65 /\ c <= 90 THEN c - 65
       ELSE IF c >= 48 /\ c <= 57 THEN AZ_DIGIT_BUCKET
       ELSE AZ_SYMBOL_BUCKET

\* the rows of the store whose names belong to the bucket the picker is on
InBucket == {i \in 1..entry_count : BucketOf(entries[i].name) = az_selected_index}

\* the frame just handled was a picker frame in which b was released
PickerEdge(b) == last.branch = "picker" /\ b \in last.edges

\* C9: a confirm in the picker puts the selection on the lowest row whose name
\* belongs to the chosen bucket and leaves it alone when there is none; confirm
\* and cancel both close the picker.
C9_ConfirmJumpsToFirst ==
    /\ PickerEdge(BTN_A) =>
          /\ InBucket # {} => (selected_index + 1 \in InBucket
                               /\ \A j \in InBucket : selected_index + 1 <= j)
          /\ InBucket = {} => selected_index = last.sel
    /\ (PickerEdge(BTN_A) \/ PickerEdge(BTN_B)) => ~az_picker_active

\* a confirm moved the selection to a row with a lower-case first letter that
\* is not the only row of its bucket
C9_JumpWitness ==
    /\ PickerEdge(BTN_A) /\ selected_index # last.sel /\ ~az_picker_active
    /\ InRange(Cur) /\ ByteAt(Bytes(RowOf(Cur).name), 1) >= 97
    /\ \E j \in InBucket : j > selected_index + 1

\* C10: whenever the picker is active, the view is the root or a real
\* directory and the store is not empty.
C10_PickerOnlyOnListings ==
    az_picker_active => (current_path \notin SpecialViews /\ entry_count > 0)

----------------------------------------------------------------------------
(* Claims about the grid of the A-Z picker, checked under SpecGrid *)

\* the frame just handled was a picker frame in which exactly b was released
OnlyPickerEdge(b) == last.branch = "picker" /\ last.edges = {b}

\* column and row of a bucket in the grid of AZ_COLUMNS columns
GridCol(i) == i % AZ_COLUMNS
GridRow(i) == i \div AZ_COLUMNS

\* C11: the picker's cursor saturates at the edges of the 7 by 4 grid: up and
\* down move it one row in the same column, left and right one column in the
\* same row, a move that would leave the grid changes nothing, and the cursor
\* is always in 0..27.
C11_GridSaturates ==
    /\ az_selected_index \in 0..AZ_SYMBOL_BUCKET
    /\ OnlyPickerEdge(UP) =>
          az_selected_index = IF GridRow(last.az_index) = 0 THEN last.az_index
                              ELSE last.az_index - AZ_COLUMNS
    /\ OnlyPickerEdge(DOWN) =>
          az_selected_index = IF GridRow(last.az_index) = GridRow(AZ_SYMBOL_BUCKET)
                              THEN last.az_index ELSE last.az_index + AZ_COLUMNS
    /\ OnlyPickerEdge(LEFT) =>
          az_selected_index = IF GridCol(last.az_index) = 0 THEN last.az_index
                              ELSE last.az_index - 1
    /\ OnlyPickerEdge(RIGHT) =>
          az_selected_index = IF GridCol(last.az_index) = AZ_COLUMNS - 1
                              THEN last.az_index ELSE last.az_index + 1

----------------------------------------------------------------------------
(* Claims about release edges and dispatch *)

\* the frame just handled left the view, the store, the selection, the
\* favorites and the picker as they were
FrameDidNothing ==
    /\ current_path = last.path /\ entry_count = last.count
    /\ selected_index = last.sel
    /\ favorites = last.favorites
    /\ az_picker_active = last.az_active /\ az_selected_index = last.az_index

\* C12: actions fire only on release edges and never repeat: the handlers see
\* the release of a button only in the frame in which its raw level fell, and
\* a frame in which no raw level fell performs no action.
C12_ReleaseFiresOnce ==
    last.branch # "init" =>
        /\ last.edges \subseteq last.released
        /\ last.released = {} => FrameDidNothing

C14_PickerOwnsEdges ==
    /\ (last.branch = "picker" /\ BTN_A \notin last.edges) =>
          /\ selected_index = last.sel /\ current_path = last.path
          /\ entry_count = last.count /\ favorites = last.favorites
    /\ last.branch = "main" => last.edges \subseteq last.released

\* the frame just handled was a main frame in which exactly B was released
BackFrame == last.branch = "main" /\ last.edges = {BTN_B}

\* C15: B in Recent games, Favorites or Tools shows the root with the selection
\* on the row of the view just left; B in Hotkeys, Credits or Utils shows the
\* Tools view; B at the root changes neither the view nor the selection.
C15_BackReturnViews ==
    BackFrame =>
        /\ last.path \in {RECENT_GAMES, FAVORITES, TOOLS} =>
              /\ current_path = ROMS_PATH
              /\ InRange(Cur) /\ RowOf(Cur).path = last.path
        /\ last.path \in {HOTKEYS, CREDITS, UTILS} =>
              /\ current_path = TOOLS
              /\ \E i \in 1..entry_count : entries[i].path = last.path
        /\ last.path = ROMS_PATH =>
              /\ current_path = ROMS_PATH /\ selected_index = last.sel
              /\ entry_count = last.count /\ last.populates = 0

\* B in the Tools view returned to the last row of a root listing longer than
\* the window
C15_BackFromToolsWitness ==
    /\ BackFrame /\ last.path = TOOLS
    /\ current_path = ROMS_PATH /\ entry_count > VISIBLE_ENTRIES
    /\ selected_index = entry_count - 1 /\ scroll_offset > 0

----------------------------------------------------------------------------
(* Claims about the special views *)

\* the view a special view is entered from
LogicalParent(view) == IF view \in {UTILS, HOTKEYS, CREDITS} THEN TOOLS ELSE ROMS_PATH

\* the store ends with a ".." row that designates the logical parent of the view
EndsWithBackRow ==
    /\ entry_count > 0
    /\ entries[entry_count] = MenuEntry(DOTDOT, LogicalParent(current_path), 1)

\* C16 as claimed: the store of every special view, Hotkeys and Credits
\* included, ends with a ".." row that designates the view's logical parent.
C16_EveryViewHasBackRow ==
    current_path \in SpecialViews => EndsWithBackRow

\* C16 as amended: the stores of Tools, Utils, Recent games and Favorites end
\* with a ".." row that designates the view's logical parent (Tools for Utils,
\* the root for the others); the stores of Hotkeys and Credits are empty.
C16_ListViewsHaveBackRow ==
    /\ current_path \in {TOOLS, UTILS, RECENT_GAMES, FAVORITES} => EndsWithBackRow
    /\ current_path \in {HOTKEYS, CREDITS} => entry_count = 0

\* the Utils view was just populated with a file of js2000, the rebuild row
\* and the back row to Tools
C16_UtilsWitness ==
    /\ current_path = UTILS /\ last.populates > 0 /\ entry_count >= 3
    /\ entries[entry_count] = MenuEntry(DOTDOT, TOOLS, 1)

----------------------------------------------------------------------------
(* Claims about favorites and launches, checked under SpecFav *)

\* a file row of the store: not a folder and not the parent marker
FileRow(row) == row # <<>> /\ row.is_dir = 0 /\ ~StrEq(row.name, DOTDOT)

\* the frame just handled changed the favorites store
FavoritesChanged == last.branch # "init" /\ favorites # last.favorites

\* C17: the favorite toggle changes the favorites store only when the selected
\* row is a file row of the store and the view is a directory below the root
\* (toggle) or the Favorites view (remove); in every other view and on folder
\* and parent-marker rows the store is left as it was.
C17_ToggleOnlyOnFileRows ==
    FavoritesChanged =>
        /\ BTN_X \in last.edges
        /\ RealSub(last.path) \/ StrEq(last.path, FAVORITES)
        /\ ~last.oob /\ FileRow(last.xrow)

\* the frame just handled released X alone on a file row of the Favorites view
RemoveFrame ==
    /\ OnlyEdge(BTN_X) /\ StrEq(last.path, FAVORITES)
    /\ LastInRange /\ FileRow(last.row)

\* the Favorites view as populated from the store: its rows, then the back row
FavoritesView(list) == Append(StoreRows(list), MenuEntry(DOTDOT, ROMS_PATH, 1))

\* the index the selection is clamped to when new_count favorites remain
ClampedIndex(index, new_count) ==
    IF new_count = 0 THEN 0
    ELSE IF index < new_count THEN index ELSE new_count - 1

\* C18: removing a favorite with X inside the Favorites view removes the
\* selected favorite, shows the remaining favorites in store order followed by
\* the back row, and leaves the selection on its previous index when that is
\* still a favorite row, else on the last remaining favorite, else (no
\* favorite left) on the back row.
C18_RemoveClampsSelection ==
    RemoveFrame =>
        /\ favorites = RemoveAt(last.favorites, last.sel + 1)
        /\ StrEq(current_path, FAVORITES)
        /\ entries = FavoritesView(favorites)
        /\ selected_index = ClampedIndex(last.sel, Len(favorites))

\* the frame just handled released X alone on a file row of a directory below
\* the root
ToggleFrame ==
    /\ OnlyEdge(BTN_X) /\ RealSub(last.path)
    /\ LastInRange /\ FileRow(last.row)

\* the games of a favorites list
Members(list) == {list[i] : i \in 1..Len(list)}

\* the view, the store and the selection of s are those on screen
SameScreen(s) ==
    /\ s.current_path = current_path /\ s.entries = entries
    /\ s.selected_index = selected_index /\ s.scroll_offset = scroll_offset

\* the state after X is handled once more on the selected row
ToggledAgain == HandleX(Cur, MenuEntry(<<>>, <<>>, 0))

\* C19: after X has toggled a file row of a directory below the root, a second
\* X on the same row brings the favorites back to their count and their
\* members before the first; neither toggle changes the view, the store or
\* the selection.
C19_ToggleRoundTrip ==
    ToggleFrame =>
        /\ current_path = last.path /\ entries = last.store
        /\ selected_index = last.sel /\ scroll_offset = last.scroll
        /\ Len(favorites) # Len(last.favorites)
        /\ SameScreen(ToggledAgain)
        /\ Len(ToggledAgain.favorites) = Len(last.favorites)
        /\ Members(ToggledAgain.favorites) = Members(last.favorites)

\* a file row of a directory was marked by the first X and unmarked by the
\* second: the favorites are back at what they were before the first
C19_RoundTripWitness ==
    /\ ToggleFrame /\ Len(favorites) < Len(last.favorites)
    /\ \E g \in Members(last.favorites) \ Members(favorites) :
          g.game_name = F_Banana /\ g = G_Banana

\* the frame just handled released A alone on a file row of Recent games or
\* of Favorites
LaunchKeyFrame ==
    /\ OnlyEdge(BTN_A)
    /\ StrEq(last.path, RECENT_GAMES) \/ StrEq(last.path, FAVORITES)
    /\ LastInRange /\ FileRow(last.row)

\* the string has no ';'
NoSeparator(str) == \A i \in 1..Len(str) : str[i] # ";"

----------------------------------------------------------------------------
(* Claims about failures: malformed keys, unreadable directories, the cache *)

\* the frame just handled released A alone on a file row of Recent games or of
\* Favorites whose key has no ';'
MalformedFrame == LaunchKeyFrame /\ NoSeparator(last.row.path)

\* C21: confirming a file row of Recent games or Favorites whose key has no ';'
\* requests no launch (nothing queued, recent games as they were) and leaves
\* the view, the store and the selection unchanged.
C21_MalformedKeyAborts ==
    MalformedFrame =>
        /\ ~game_queued /\ launch = <<>> /\ recents = last.recents
        /\ current_path = last.path /\ entries = last.store
        /\ selected_index = last.sel

\* the key without ';' was confirmed in Favorites, where it is row 0
C21_MalformedWitness ==
    /\ MalformedFrame /\ StrEq(last.path, FAVORITES) /\ last.sel = 0
    /\ Len(last.row.path) = MAX_PATH_LEN - 1

RealView == current_path # <<>> /\ current_path \notin SpecialViews

\* the frame just handled, or retro_init, populated the view, and the view is
\* a directory that cannot be opened
UnopenedScan == last.populates > 0 /\ RealView /\ ~opendir(current_path)

\* C23: the scan of a directory that cannot be opened stops nothing and leaves
\* no entry read from it: below the root the store is exactly the parent
\* marker, at the root it is empty; the selection and the scroll offset are 0.
C23_UnopenedDirectory ==
    UnopenedScan =>
        /\ ~halted
        /\ entries = IF StrEq(current_path, ROMS_PATH) THEN <<>>
                     ELSE <<MenuEntry(DOTDOT, current_path, 1)>>
        /\ selected_index = 0 /\ scroll_offset = 0

\* the folder that cannot be opened was entered from the root with A
C23_LockedFolderWitness ==
    /\ UnopenedScan /\ OnlyEdge(BTN_A)
    /\ StrEq(last.path, ROMS_PATH) /\ StrEq(current_path, GB_PATH)

\* the cache file the run started with; it is only written by a rebuild, which
\* stores the names it found
StartedBroken == cache_file \in BrokenCacheFiles \/ cache_file = CacheFile(EmptyFolders)

\* C24: once the cache has been loaded from a file that was absent, empty or
\* cut short, the cached names are those a rebuild from the filesystem finds,
\* and the program has not stopped.
C24_BrokenCacheRebuilds ==
    (empty_dirs_loaded /\ StartedBroken) => (empty_dirs = EmptyFolders /\ ~halted)

\* the frame just handled confirmed a row of Utils, where the rebuild row is
RebuildFrame == last.branch = "main" /\ StrEq(last.path, UTILS) /\ BTN_A \in last.edges

\* C25: once the cache has been loaded, a frame that does not rebuild it from
\* Utils leaves the cached names and the cache file as they were, whatever it
\* scans, and rebuilds nothing; the scan that loads the cache rebuilds it at
\* most once, however many folders it tests.
C25_LoadIsIdempotent ==
    /\ last.rebuilds <= 1
    /\ (last.branch # "init" /\ last.loaded /\ ~RebuildFrame) =>
            /\ empty_dirs = last.empty_dirs
            /\ cache_file = last.cache_file
            /\ empty_dirs_loaded /\ last.rebuilds = 0

\* the root was scanned again, on the way back from a folder, with a cache
\* that was loaded from an empty file
C25_RescanWitness ==
    /\ last.loaded /\ OnlyEdge(BTN_B) /\ RealSub(last.path)
    /\ StrEq(current_path, ROMS_PATH) /\ last.populates > 0
    /\ cache_file = CacheFile(<<>>) /\ empty_dirs = <<>>

----------------------------------------------------------------------------
(* Claims about whole frames *)

\* C26: a frame that starts with a game queued leaves the game queued and
\* changes neither the view, the selection, the scroll offset, the store, the
\* favorites nor the picker, whatever the buttons do; a redraw with a game
\* queued shows the loading screen.
C26_LaunchIsTerminal ==
    (last.branch # "init" /\ last.queued) =>
        /\ game_queued
        /\ current_path = last.path /\ entries = last.store
        /\ selected_index = last.sel /\ scroll_offset = last.scroll
        /\ favorites = last.favorites
        /\ az_picker_active = last.az_active /\ az_selected_index = last.az_index
        /\ ~settings_active

\* with a game queued, RIGHT was released, which would have opened the picker
C26_QueuedWitness ==
    /\ last.branch # "init" /\ last.queued /\ RIGHT \in last.released
    /\ launch # <<>>

\* C27: a frame handled with no game queued redraws the menu exactly when the
\* raw level of some button differs from its level in the frame before.
C27_RedrawIffLevelsMoved ==
    (last.branch # "init" /\ ~last.queued) => (last.rendered <=> last.moved)

NoLevels == [b \in Buttons |-> 0]

\* the state with button b alone held down in the frame before
HeldDown(s, b) == [s EXCEPT !.prev_input = [x \in Buttons |-> IF x = b THEN 1 ELSE 0]]

\* handle_input, the main handler, in the frame that releases the one button held
ReleaseFrame(s) ==
    MainRest(Steps(s, NoLevels, "zero"), NoLevels, MenuEntry(<<>>, <<>>, 0), <<0>>)

\* what C29 compares: view path, Entry Store, selection and scroll offset
ViewState(s) == <<s.current_path, s.entries, s.selected_index, s.scroll_offset>>

\* the main handler runs in a directory of the card below ROMS_PATH
BelowRoot ==
    /\ Running /\ ~game_queued /\ ~settings_active /\ ~az_picker_active
    /\ RealView /\ ~StrEq(current_path, ROMS_PATH)

\* the rows of the store named ".."
ParentRows == {i \in 1..entry_count : StrEq(entries[i].name, DOTDOT)}

\* C29: in a directory of the card below the root, the frame that releases B
\* ends with the same view path, Entry Store, selection and scroll offset as
\* the frame that releases A with the selection on the ".." row.
C29_BackIsConfirmOnParent ==
    BelowRoot =>
        \A i \in ParentRows :
            ViewState(ReleaseFrame(HeldDown(Cur, BTN_B)))
                = ViewState(ReleaseFrame(HeldDown([Cur EXCEPT !.selected_index = i - 1],
                                                  BTN_A)))

\* B was released in a folder below the root, and the view is now what a
\* confirm on ".." makes of it: the parent, the selection on the folder left
C29_BackWitness ==
    /\ OnlyEdge(BTN_B)
    /\ last.path \notin SpecialViews /\ ~StrEq(last.path, ROMS_PATH)
    /\ \E i \in 1..Len(last.store) : StrEq(last.store[i].name, DOTDOT)
    /\ last.path = JoinPath(current_path, RowOf(Cur).name)
    /\ selected_index > 0

\* C30: in one frame at most one operation that populates the view runs (a
\* directory scan or the populator of a special view), so no handler changes
\* the view after another handler of the same frame did.
C30_OneViewChangePerFrame ==
    last.branch # "init" => last.populates <= 1

----------------------------------------------------------------------------
(* Claims about listings and views *)

\* a frame populated the view and redrew it
PopulatedAndDrawn == last.branch # "init" /\ last.populates > 0 /\ last.rendered

RootFiles == IF opendir(ROMS_PATH)
             THEN {i \in 1..Len(readdir(ROMS_PATH)) : ~readdir(ROMS_PATH)[i].st_isdir}
             ELSE {}

\* the store row i shows the dirent k of the root
ShowsRootDirent(i, k) ==
    \/ StrEq(entries[i].name, readdir(ROMS_PATH)[k].d_name)
    \/ StrEq(entries[i].path, JoinPath(ROMS_PATH, readdir(ROMS_PATH)[k].d_name))

\* C32: in the root view every row of the store is a directory row and no row
\* shows a file of the root, whether its type came from d_type or from stat().
C32_RootListsOnlyFolders ==
    StrEq(current_path, ROMS_PATH) =>
        \A i \in 1..entry_count :
            /\ entries[i].is_dir # 0
            /\ \A k \in RootFiles : ~ShowsRootDirent(i, k)

\* a frame scanned a root that holds a file without a type hint, and the
\* listing shows the folders around it
C32_UntypedFileWitness ==
    /\ last.branch # "init" /\ last.populates > 0
    /\ StrEq(current_path, ROMS_PATH)
    /\ \E k \in RootFiles : readdir(ROMS_PATH)[k].d_type = DT_UNKNOWN
    /\ \E i \in 1..entry_count : StrEq(entries[i].path, GB_PATH)

\* the rows of the store that show a dirent of the listed directory
FsRows == {i \in 1..entry_count : StrEq(entries[i].path, JoinPath(current_path, entries[i].name))}

\* the names a scan of the listed directory keeps, in a folder below the root
KeptNames ==
    IF opendir(current_path)
    THEN {readdir(current_path)[k].d_name : k \in
            {k \in 1..Len(readdir(current_path)) :
                /\ ~IsHidden(readdir(current_path)[k].d_name)
                /\ ~IsReserved(readdir(current_path)[k].d_name)}}
    ELSE {}

ParentPath(path) == SubSeq(path, 1, strrchr(path, "/") - 1)

\* C34: in every directory below the root the store has a row named ".." and
\* the path of every such row is the path of the parent of the listed
\* directory.
C34_ParentRowNamesParent ==
    (RealView /\ ~StrEq(current_path, ROMS_PATH)) =>
        /\ ParentRows # {}
        /\ \A i \in ParentRows : StrEq(entries[i].path, ParentPath(current_path))

\* the frame released A alone, with the selection on a row named ".."
ConfirmedBackRow ==
    /\ OnlyEdge(BTN_A)
    /\ last.row # <<>> /\ StrEq(last.row.name, DOTDOT)

\* C35: a confirm on the ".." row of Tools, Recent games or Favorites opens the
\* root listing, and a confirm on the ".." row of Utils opens Tools.
C35_BackRowOpensParent ==
    ConfirmedBackRow =>
        /\ last.path \in RootViews => StrEq(current_path, ROMS_PATH)
        /\ last.path = UTILS => StrEq(current_path, TOOLS)

\* C36: in every directory below the root the store has exactly one row named
\* ".." and it is the first row, whatever names the directory holds.
C36_ParentRowFirst ==
    (RealView /\ ~StrEq(current_path, ROMS_PATH)) => ParentRows = {1}

----------------------------------------------------------------------------
(* Claims about round trips and reachable views *)

\* the selection after button b was released and then button c, a frame each
AfterTwoReleases(b, c) ==
    ReleaseFrame(HeldDown(ReleaseFrame(HeldDown(Cur, b)), c)).selected_index

\* the main handler runs on a non-empty store with the selection on a row of it
OnARow ==
    /\ Running /\ ~game_queued /\ ~settings_active /\ ~az_picker_active
    /\ entry_count > 0 /\ InRange(Cur)

\* C37: on a non-empty store with a valid selection, R and then L, and L and
\* then R, bring the selection back to the row it was on.
C37_PageStepRoundTrip ==
    OnARow =>
        /\ AfterTwoReleases(BTN_R, BTN_L) = selected_index
        /\ AfterTwoReleases(BTN_L, BTN_R) = selected_index

\* C38: the view is always the root, a directory strictly below the root, or
\* one of the special views; nothing ascends above the root.
C38_NeverAboveRoot ==
    \/ StrEq(current_path, ROMS_PATH)
    \/ HasPrefix(current_path, ROMS_PREFIX) /\ Len(current_path) > Len(ROMS_PREFIX)
    \/ current_path \in SpecialViews

\* the frame just handled confirmed the row "Rebuild folder cache" of Utils
ConfirmedRebuild ==
    /\ RebuildFrame /\ last.rebuilds = 1
    /\ last.row # <<>> /\ StrEq(last.row.path, REBUILD_CACHE)

\* C39: the frame that confirms "Rebuild folder cache" rebuilds the cache and
\* ends in the root listing with the selection on row 0, and a next frame in
\* which no raw level differs leaves the view the root.
C39_RebuildEndsAtRoot ==
    /\ [](ConfirmedRebuild =>
            /\ StrEq(current_path, ROMS_PATH)
            /\ selected_index = 0)
    /\ [][(ConfirmedRebuild /\ ~last'.moved) => StrEq(current_path', ROMS_PATH)]_vars

\* the frame just handled released A alone on the row "Random game" of the root
ConfirmedRandom ==
    /\ OnlyEdge(BTN_A) /\ StrEq(last.path, ROMS_PATH)
    /\ last.row # <<>> /\ StrEq(last.row.path, RANDOM_GAME)

\* a launch is queued for a file row of the listing of a top-level folder
QueuedFromTopFolder ==
    /\ game_queued
    /\ RealView /\ ParentPath(current_path) = ROMS_PATH
    /\ \E k \in 1..Len(last.store) :
        /\ last.store[k].is_dir # 0 /\ StrEq(last.store[k].path, current_path)
    /\ \E i \in FsRows :
        /\ entries[i].is_dir = 0
        /\ launch = <<get_corename(entries[i].path), clean_path(entries[i].path),
                      entries[i].name>>

\* no launch is queued and the root is listed afresh, the selection on row 0
BackAtFreshRoot ==
    /\ ~game_queued /\ launch = <<>>
    /\ StrEq(current_path, ROMS_PATH)
    /\ selected_index = 0 /\ scroll_offset = 0
    /\ entries = scan_directory(Cur, ROMS_PATH).entries

\* C40: a confirm on "Random game" ends after at most MAX_ATTEMPTS attempts,
\* each a root scan and a folder scan, either with a launch queued for a file
\* row of a top-level folder or with no launch and the root listed afresh with
\* the selection on row 0.
C40_RandomEndsInOneOfTwo ==
    ConfirmedRandom =>
        /\ last.populates >= 1
        /\ last.populates <= 2 * MAX_ATTEMPTS + 1
        /\ QueuedFromTopFolder \/ BackAtFreshRoot
        /\ ~(QueuedFromTopFolder /\ BackAtFreshRoot)

\* every attempt drew an empty folder: MAX_ATTEMPTS attempts, then the root
C40_GaveUpWitness ==
    /\ ConfirmedRandom /\ BackAtFreshRoot
    /\ last.populates = 2 * MAX_ATTEMPTS + 1

====
